---- MODULE Spec2Model ----
(***************************************************************************)
(* Model of the IncidentRecordingForm Lightning Web Component              *)
(* (src/force-app/main/default/lwc/incidentRecordingForm), followed by the *)
(* ShoppingCart, HeroCarousel and ProductCarousel components, each with a  *)
(* specification of its own.  The first part describes the form.           *)
(*                                                                         *)
(* One component instance, the browser's localStorage entry                *)
(* 'incident_draft', the two auto-save timers and the asynchronous calls    *)
(* suspended at an await (simulateApiCall).  JavaScript runs one callback   *)
(* to its next await at a time, so every action below is one such run.      *)
(*                                                                         *)
(* Strings are TLA+ strings; Chars gives the characters of each string the  *)
(* model uses, so that trim() and length are computed, not assumed.         *)
(* JavaScript null is written "" (both are falsy and both survive JSON).    *)
(* Display-only state that no handler reads (loadingMessage,                *)
(* showAutoSaveIndicator, selectedStudentInfo) is not modelled.             *)
(***************************************************************************)
EXTENDS Integers, Sequences, FiniteSets, TLC

VARIABLES
    phase,            \* "constructed" | "connected" | "disconnected"
    currentStep,      \* @track currentStep
    isLoading,        \* @track isLoading
    errorMessage,     \* @track errorMessage
    formData,         \* @track formData
    uploadedFiles,    \* @track uploadedFiles
    validationErrors, \* @track validationErrors (sequence of error ids)
    autoSaveTimer,    \* the debounce handle: "null" | "pending" | "done"
    timeouts,         \* setTimeout callbacks of triggerAutoSave not yet run or cleared
    autoSaveInterval, \* TRUE while the setInterval of setupAutoSave runs
    localStorage,     \* the 'incident_draft' entry: NoDraft or a JSON draft
    pendingSaves,     \* saveDraft calls suspended at their await, by caller
    pendingSubmits,   \* submitIncident calls suspended at their await
    events,           \* CustomEvents dispatched to the host, in order
    editsUsed,        \* number of user edits made so far (exploration bound)
    shoppingCart,     \* the ShoppingCart component and its timers
    heroCarousel,     \* the HeroCarousel component and its timers
    productCarousel   \* the ProductCarousel component and its pending load

\* the components of the portal other than the incident form
otherComponents == <<shoppingCart, heroCarousel, productCarousel>>

\* the incident form and its storage entry
incidentRecordingForm ==
    <<phase, currentStep, isLoading, errorMessage, formData, uploadedFiles,
      validationErrors, autoSaveTimer, timeouts, autoSaveInterval,
      localStorage, pendingSaves, pendingSubmits, events, editsUsed>>

vars == <<incidentRecordingForm, otherComponents>>

(***************************************************************************)
(* Bounds of the exploration.                                              *)
(***************************************************************************)
MaxEdits == 2
MaxInFlight == 1
MaxEvents == 1
MaxFiles == 1
MaxTraceEdits == 7
MaxOverlap == 2

(***************************************************************************)
(* Strings.  Chars(s) lists the characters of s; only the position of the  *)
(* whitespace matters to the code, so every other character is written "x".*)
(***************************************************************************)
Rep(c, n) == [i \in 1..n |-> c]

Chars(s) ==
    CASE s = "" -> <<>>
      [] s = "   " -> Rep(" ", 3)
      [] s = "fight" -> Rep("x", 5)
      [] s = " ten chars " -> <<" ">> \o Rep("x", 3) \o <<" ">> \o Rep("x", 5) \o <<" ">>
      [] s = "  pushed Sam  " -> Rep(" ", 2) \o Rep("x", 6) \o <<" ">> \o Rep("x", 3) \o Rep(" ", 2)
      [] s = "he pushed Sam" -> Rep("x", 2) \o <<" ">> \o Rep("x", 6) \o <<" ">> \o Rep("x", 3)
      [] s = "calm " -> Rep("x", 4) \o <<" ">>
      [] s = "moved" -> Rep("x", 5)
      [] s = "called" -> Rep("x", 6)
      [] s = "stu-001" -> Rep("x", 7)
      [] s = "stu-002" -> Rep("x", 7)
      [] s = "2026-01-01T08:00" -> Rep("x", 16)
      [] s = "2026-01-02T09:30" -> Rep("x", 16)
      [] s = "classroom" -> Rep("x", 9)
      [] s = "disruption" -> Rep("x", 10)
      [] s = "Low" -> Rep("x", 3)
      [] s = "High" -> Rep("x", 4)
      [] s = "Critical" -> Rep("x", 8)

Whitespace == {" "}

RECURSIVE TrimStart(_)
TrimStart(cs) ==
    IF cs # <<>> /\ Head(cs) \in Whitespace THEN TrimStart(Tail(cs)) ELSE cs

RECURSIVE TrimEnd(_)
TrimEnd(cs) ==
    IF cs # <<>> /\ cs[Len(cs)] \in Whitespace
    THEN TrimEnd(SubSeq(cs, 1, Len(cs) - 1))
    ELSE cs

\* String.prototype.trim().length
TrimLength(s) == Len(TrimEnd(TrimStart(Chars(s))))

\* JavaScript truthiness of a string (or null)
Truthy(v) == v # ""

(***************************************************************************)
(* The form record.  The fields kept are those some handler reads, the two *)
(* participant collections, and submissionNotes, which stands for the free *)
(* text fields that only handleFieldChange writes and nothing reads.       *)
(***************************************************************************)
FieldOrder ==
    <<"studentId", "incidentDateTime", "location", "incidentType", "severityLevel",
      "incidentDescription", "otherStudents", "staffMembers", "immediateResponse",
      "escalationLevel", "escalationJustification", "approverId", "submissionNotes">>

FieldNames == {FieldOrder[i] : i \in DOMAIN FieldOrder}

CollectionFields == {"otherStudents", "staffMembers"}

DefaultFormData ==
    [k \in FieldNames |-> IF k \in CollectionFields THEN <<>> ELSE ""]

\* new Date().toISOString().slice(0, 16) during the session
Now == "2026-01-02T09:30"

\* the same reading taken in an earlier session
Earlier == "2026-01-01T08:00"

steps == <<"step1", "step2", "step3", "step4", "step5", "step6">>

\* steps.indexOf(step), 1-based
IndexOf(step) == CHOOSE i \in DOMAIN steps : steps[i] = step

currentStepNumber == IndexOf(currentStep)

(***************************************************************************)
(* Computed properties and validation.                                     *)
(***************************************************************************)
\* mutant: every chosen level counts as an escalation, 'none' included
requiresEscalationAnyLevel(fd) == Truthy(fd.escalationLevel)

requiresEscalation(fd) ==
    Truthy(fd.escalationLevel) /\ fd.escalationLevel # "none"

\* mutant: the Critical severity is forgotten
requiresApprovalHighOnly(fd) ==
    \/ fd.severityLevel = "High"
    \/ requiresEscalation(fd)

requiresApproval(fd) ==
    \/ fd.severityLevel = "High"
    \/ fd.severityLevel = "Critical"
    \/ requiresEscalation(fd)

\* mutant: a description and a response need only be non-empty
isCurrentStepValidNonEmpty(step, fd) ==
    CASE step = "step1" ->
            /\ Truthy(fd.studentId)
            /\ Truthy(fd.incidentDateTime)
            /\ Truthy(fd.location)
            /\ Truthy(fd.incidentType)
            /\ Truthy(fd.severityLevel)
      [] step = "step2" -> Truthy(fd.incidentDescription)
      [] step = "step3" -> TRUE
      [] step = "step4" -> Truthy(fd.immediateResponse)
      [] step = "step5" -> TRUE
      [] step = "step6" -> ~requiresApproval(fd) \/ Truthy(fd.approverId)
      [] OTHER -> TRUE

\* mutant: the lengths are taken of the text as typed, without trim()
isCurrentStepValidUntrimmed(step, fd) ==
    CASE step = "step1" ->
            /\ Truthy(fd.studentId)
            /\ Truthy(fd.incidentDateTime)
            /\ Truthy(fd.location)
            /\ Truthy(fd.incidentType)
            /\ Truthy(fd.severityLevel)
      [] step = "step2" ->
            /\ Truthy(fd.incidentDescription)
            /\ Len(Chars(fd.incidentDescription)) > 10
      [] step = "step3" -> TRUE
      [] step = "step4" ->
            /\ Truthy(fd.immediateResponse)
            /\ Len(Chars(fd.immediateResponse)) > 5
      [] step = "step5" -> TRUE
      [] step = "step6" -> ~requiresApproval(fd) \/ Truthy(fd.approverId)
      [] OTHER -> TRUE

isCurrentStepValid(step, fd) ==
    CASE step = "step1" ->
            /\ Truthy(fd.studentId)
            /\ Truthy(fd.incidentDateTime)
            /\ Truthy(fd.location)
            /\ Truthy(fd.incidentType)
            /\ Truthy(fd.severityLevel)
      [] step = "step2" ->
            /\ Truthy(fd.incidentDescription)
            /\ TrimLength(fd.incidentDescription) > 10
      [] step = "step3" -> TRUE
      [] step = "step4" ->
            /\ Truthy(fd.immediateResponse)
            /\ TrimLength(fd.immediateResponse) > 5
      [] step = "step5" -> TRUE
      [] step = "step6" -> ~requiresApproval(fd) \/ Truthy(fd.approverId)
      [] OTHER -> TRUE

requiredFields ==
    {"studentId", "incidentDateTime", "location", "incidentType", "severityLevel",
     "incidentDescription", "immediateResponse"}

isFormValid(fd) ==
    LET isBasicValid ==
            \A field \in requiredFields :
                Truthy(fd[field]) /\ TrimLength(fd[field]) > 0
        isApprovalValid == ~requiresApproval(fd) \/ Truthy(fd.approverId)
        isEscalationValid ==
            ~requiresEscalation(fd) \/ Truthy(fd.escalationJustification)
    IN  isBasicValid /\ isApprovalValid /\ isEscalationValid

\* the ids of the errors pushed, in order (each id has one fixed message)
validateFinalSubmission(fd) ==
    (IF ~Truthy(fd.studentId) THEN <<"student">> ELSE <<>>)
    \o (IF ~Truthy(fd.incidentDescription) \/ TrimLength(fd.incidentDescription) < 10
        THEN <<"description">> ELSE <<>>)
    \o (IF ~Truthy(fd.immediateResponse) \/ TrimLength(fd.immediateResponse) < 5
        THEN <<"response">> ELSE <<>>)
    \o (IF requiresApproval(fd) /\ ~Truthy(fd.approverId)
        THEN <<"approval">> ELSE <<>>)
    \o (IF requiresEscalation(fd) /\ ~Truthy(fd.escalationJustification)
        THEN <<"escalation">> ELSE <<>>)

validateCurrentStep(step, fd) ==
    IF step = "step6" THEN validateFinalSubmission(fd) ELSE <<>>

clearFieldValidationError(errors, fieldName) ==
    SelectSeq(errors, LAMBDA id : id # fieldName)

reduceError(error) ==
    IF Truthy(error.message) THEN error.message ELSE "An unexpected error occurred"

(***************************************************************************)
(* JSON and localStorage.  The JSON text of an object is the sequence of   *)
(* its key/value pairs in key order; formData always holds the keys of     *)
(* FieldOrder in that order (object spread keeps the place of a key).      *)
(***************************************************************************)
\* the entry is absent: getItem returns null
NoDraft == [present |-> FALSE]

\* the entry holds a text that is not JSON
Corrupt == [present |-> TRUE, json |-> FALSE]

JSONstringify(fd) ==
    [i \in DOMAIN FieldOrder |-> [key |-> FieldOrder[i], value |-> fd[FieldOrder[i]]]]

JSONparse(text) ==
    [k \in {text[i].key : i \in DOMAIN text} |->
        (CHOOSE p \in {text[i] : i \in DOMAIN text} : p.key = k).value]

\* { ...a, ...b }
Spread(a, b) ==
    [k \in DOMAIN a \cup DOMAIN b |-> IF k \in DOMAIN b THEN b[k] ELSE a[k]]

\* the text saveDraft hands to localStorage.setItem
DraftText(fd, files, timestamp) ==
    [present |-> TRUE, json |-> TRUE, formData |-> JSONstringify(fd),
     uploadedFiles |-> files, timestamp |-> timestamp]

\* getItem returns a text and JSON.parse accepts it
IsDraft(entry) == entry.present /\ entry.json

hasUnsavedChanges(entry, fd) ==
    IF ~entry.present THEN TRUE
    ELSE IF ~entry.json THEN TRUE
    ELSE JSONstringify(fd) # JSONstringify(JSONparse(entry.formData))

\* mutant: the spread is written the other way round, the defaults win
loadDraftDefaultsWin(entry, fd, files) ==
    IF IsDraft(entry)
    THEN <<Spread(JSONparse(entry.formData), fd), entry.uploadedFiles>>
    ELSE <<fd, files>>

\* loadDraft: the pair <<formData, uploadedFiles>> after it ran
loadDraft(entry, fd, files) ==
    IF IsDraft(entry)
    THEN <<Spread(fd, JSONparse(entry.formData)), entry.uploadedFiles>>
    ELSE <<fd, files>>

\* initializeForm, for the @api studentId P
initializeForm(entry, fd, files, P) ==
    LET withTime == [fd EXCEPT !.incidentDateTime = Now]
        seeded == IF Truthy(P) THEN [withTime EXCEPT !.studentId = P] ELSE withTime
    IN  loadDraft(entry, seeded, files)

(***************************************************************************)
(* Inputs.                                                                 *)
(***************************************************************************)
\* values the inputs bound to handleFieldChange can deliver, by field
FieldValues(field) ==
    CASE field = "incidentDateTime" -> {"", Earlier}
      [] field = "location" -> {"", "classroom"}
      [] field = "incidentType" -> {"", "disruption"}
      [] field = "severityLevel" -> {"", "Low", "High", "Critical"}
      [] field = "incidentDescription" -> {"", "   ", " ten chars ", "he pushed Sam"}
      [] field = "immediateResponse" -> {"", "moved", "called"}
      [] field = "escalationLevel" -> {"", "none", "principal"}
      [] field = "escalationJustification" -> {"", "repeated"}
      [] field = "approverId" -> {"", "usr-9"}
      [] field = "submissionNotes" -> {"", "urgent"}

EditableFields ==
    {"incidentDateTime", "location", "incidentType", "severityLevel",
     "incidentDescription", "immediateResponse", "escalationLevel",
     "escalationJustification", "approverId", "submissionNotes"}

\* the edits explored from each draft: one that breaks and one that mends each
\* rule of the validators, and one that no validator reads
EditInputs ==
    {<<"location", "">>, <<"severityLevel", "High">>, <<"severityLevel", "Low">>,
     <<"incidentDescription", "fight">>, <<"incidentDescription", "he pushed Sam">>,
     <<"immediateResponse", "calm ">>, <<"escalationLevel", "principal">>,
     <<"escalationJustification", "repeated">>, <<"approverId", "usr-9">>,
     <<"submissionNotes", "urgent">>}

\* record ids the student picker can deliver ("" when the selection is cleared)
PickerIds == {"", "stu-001"}

\* values of the @api studentId the host can mount the form with
ApiStudentIds == {"", "stu-002"}

Files == {[documentId |-> "doc-1", name |-> "photo.png"]}

\* record ids the participant pickers can deliver ("" when nothing is chosen)
StudentIds == {"", "stu-003", "stu-004", "stu-005"}

StaffIds == {"", "stf-01", "stf-02"}

(***************************************************************************)
(* The other components of the portal, each held in one record whose       *)
(* fields carry the names of the class fields.  These are the values the   *)
(* class field initialisers give them.                                     *)
(***************************************************************************)
\* localStorage.getItem('ecommerce_cart') returns null
NoCart == [present |-> FALSE]

\* JavaScript null in appliedCoupon
null == [code |-> "null"]

\* ShoppingCart: cartItems = [], couponCode = '', appliedCoupon = null; no
\* coupon check is waiting on its timer; `now` is the reading of Date.now()
ShoppingCartConstructed ==
    [mounted |-> FALSE, cartItems |-> <<>>, couponCode |-> <<>>,
     appliedCoupon |-> null, validating |-> <<>>, ecommerce_cart |-> NoCart,
     now |-> 0]

\* HeroCarousel with the default values of its public properties.  The
\* slides are kept by their number (slidesData 0: none given); a timer handle
\* is TRUE while the interval it names is live; autoPlayIntervals and
\* progressIntervals count the live intervals, timeouts the pending 3 s
\* resumes, initializing the continuations of initializeCarousel that wait
\* behind its await.
HeroCarouselConstructed ==
    [phase |-> "constructed", autoPlay |-> TRUE, loop |-> TRUE,
     showProgressBar |-> FALSE, slidesData |-> 0,
     currentSlideIndex |-> 0, isLoading |-> TRUE, carouselSlides |-> 0,
     isPlaying |-> FALSE, progressBarWidth |-> 0,
     autoPlayTimer |-> FALSE, progressTimer |-> FALSE, isUserInteracting |-> FALSE,
     touchStartX |-> 0,
     autoPlayIntervals |-> 0, progressIntervals |-> 0, timeouts |-> 0,
     initializing |-> 0]

\* ProductCarousel: products = [], currentStartIndex = 0, isLoading = true;
\* loading counts the 800 ms timers of loadProducts that have not fired,
\* dispatched lists the events the carousel sent to its host
ProductCarouselConstructed ==
    [phase |-> "constructed", products |-> <<>>, currentStartIndex |-> 0,
     isLoading |-> TRUE, loading |-> 0, dispatched |-> <<>>]

OtherComponentsConstructed ==
    /\ shoppingCart = ShoppingCartConstructed
    /\ heroCarousel = HeroCarouselConstructed
    /\ productCarousel = ProductCarouselConstructed

(***************************************************************************)
(* Construction: the class field initialisers.                             *)
(***************************************************************************)
Constructed ==
    /\ phase = "constructed"
    /\ currentStep = "step1"
    /\ isLoading = FALSE
    /\ errorMessage = ""
    /\ formData = DefaultFormData
    /\ uploadedFiles = <<>>
    /\ validationErrors = <<>>
    /\ autoSaveTimer = "null"
    /\ timeouts = 0
    /\ autoSaveInterval = FALSE
    /\ pendingSaves = [auto |-> 0, manual |-> 0]
    /\ pendingSubmits = 0
    /\ events = <<>>

(***************************************************************************)
(* Records an earlier session may have left in the draft.                  *)
(***************************************************************************)
Step1Record ==
    [DefaultFormData EXCEPT !.studentId = "stu-001", !.incidentDateTime = Earlier,
                            !.location = "classroom", !.incidentType = "disruption",
                            !.severityLevel = "Low"]

HighRecord ==
    [Step1Record EXCEPT !.severityLevel = "High",
                        !.incidentDescription = "he pushed Sam",
                        !.immediateResponse = "called"]

InitialDrafts ==
    {NoDraft, Corrupt,
     DraftText(Step1Record, <<>>, Earlier),
     DraftText(HighRecord, <<[documentId |-> "doc-1", name |-> "photo.png"]>>, Earlier)}

\* every record the inputs of the form can produce (collections left empty)
AllRecords ==
    {[DefaultFormData EXCEPT
        !.studentId = sid, !.incidentDateTime = dt, !.location = loc,
        !.incidentType = ty, !.severityLevel = sev, !.incidentDescription = desc,
        !.immediateResponse = resp, !.escalationLevel = esc,
        !.escalationJustification = just, !.approverId = appr] :
        sid \in PickerIds, dt \in FieldValues("incidentDateTime"),
        loc \in FieldValues("location"), ty \in FieldValues("incidentType"),
        sev \in FieldValues("severityLevel"),
        desc \in FieldValues("incidentDescription"),
        resp \in FieldValues("immediateResponse"),
        esc \in FieldValues("escalationLevel"),
        just \in FieldValues("escalationJustification"),
        appr \in FieldValues("approverId")}

FileLists == {<<>>} \cup {<<file>> : file \in Files}

\* every draft saveDraft can have written in an earlier session
AllDrafts ==
    {DraftText(fd, files, Earlier) : fd \in AllRecords, files \in FileLists}

Init ==
    /\ Constructed
    /\ OtherComponentsConstructed
    /\ localStorage \in InitialDrafts
    /\ editsUsed = 0

(***************************************************************************)
(* Lifecycle.                                                              *)
(***************************************************************************)
\* connectedCallback: initializeForm, then setupAutoSave
connectedCallback(P) ==
    /\ phase = "constructed"
    /\ LET loaded == initializeForm(localStorage, formData, uploadedFiles, P)
       IN  /\ formData' = loaded[1]
           /\ uploadedFiles' = loaded[2]
    /\ autoSaveInterval' = TRUE
    /\ phase' = "connected"
    /\ UNCHANGED <<currentStep, isLoading, errorMessage, validationErrors,
                   autoSaveTimer, timeouts, localStorage, pendingSaves, pendingSubmits,
                   events, editsUsed, otherComponents>>

\* clearTimeout(handle): the callback the handle names, if it has not run
\* yet, never runs; the handle keeps its value
clearTimeout(handle, pending) ==
    IF handle = "pending" THEN pending - 1 ELSE pending

\* disconnectedCallback clears the debounce timer only
disconnectedCallback ==
    /\ phase = "connected"
    /\ autoSaveTimer' = IF autoSaveTimer = "pending" THEN "done" ELSE autoSaveTimer
    /\ timeouts' = clearTimeout(autoSaveTimer, timeouts)
    /\ phase' = "disconnected"
    /\ UNCHANGED <<currentStep, isLoading, errorMessage, formData, uploadedFiles,
                   validationErrors, autoSaveInterval, otherComponents, localStorage, pendingSaves,
                   pendingSubmits, events, editsUsed>>

\* The page is reloaded: timers and suspended calls die with the old page,
\* localStorage survives, and a fresh instance is constructed.
Reload ==
    /\ phase # "constructed"
    /\ phase' = "constructed"
    /\ currentStep' = "step1"
    /\ isLoading' = FALSE
    /\ errorMessage' = ""
    /\ formData' = DefaultFormData
    /\ uploadedFiles' = <<>>
    /\ validationErrors' = <<>>
    /\ autoSaveTimer' = "null"
    /\ timeouts' = 0
    /\ autoSaveInterval' = FALSE
    /\ pendingSaves' = [auto |-> 0, manual |-> 0]
    /\ pendingSubmits' = 0
    /\ events' = <<>>
    /\ UNCHANGED <<localStorage, editsUsed, otherComponents>>

(***************************************************************************)
(* Auto-save.                                                              *)
(***************************************************************************)
\* mutant: a new timeout is set without clearing the one the handle names
triggerAutoSaveWithoutClear ==
    /\ timeouts' = timeouts + 1
    /\ autoSaveTimer' = "pending"

\* triggerAutoSave: clearTimeout of the handle when it is set, then setTimeout
triggerAutoSave ==
    /\ timeouts' = clearTimeout(autoSaveTimer, timeouts) + 1
    /\ autoSaveTimer' = "pending"

\* a debounce callback runs (the oldest first: all have the same delay, so
\* the one the handle names is the last): autoSaveDraft calls saveDraft,
\* which awaits
autoSaveTimerFires ==
    /\ timeouts > 0
    /\ pendingSaves.auto < MaxInFlight
    /\ timeouts' = timeouts - 1
    /\ autoSaveTimer' = IF timeouts = 1 /\ autoSaveTimer = "pending" THEN "done"
                        ELSE autoSaveTimer
    /\ pendingSaves' = [pendingSaves EXCEPT !.auto = @ + 1]
    /\ UNCHANGED <<phase, currentStep, isLoading, errorMessage, formData,
                   uploadedFiles, validationErrors, autoSaveInterval, otherComponents, localStorage,
                   pendingSubmits, events, editsUsed>>

\* a tick of the setInterval of setupAutoSave
autoSaveIntervalTicks ==
    /\ autoSaveInterval
    /\ IF hasUnsavedChanges(localStorage, formData)
       THEN /\ pendingSaves.auto < MaxInFlight
            /\ pendingSaves' = [pendingSaves EXCEPT !.auto = @ + 1]
       ELSE UNCHANGED pendingSaves
    /\ UNCHANGED <<phase, currentStep, isLoading, errorMessage, formData,
                   uploadedFiles, validationErrors, autoSaveTimer, timeouts, autoSaveInterval, otherComponents,
                   localStorage, pendingSubmits, events, editsUsed>>

\* mutant: the text written keeps the file list of the entry it replaces
saveDraftKeepsFiles(stored) ==
    IF stored
    THEN DraftText(formData,
                   IF IsDraft(localStorage) THEN localStorage.uploadedFiles
                   ELSE uploadedFiles,
                   Now)
    ELSE localStorage

\* saveDraft after its await: setItem of the state as it is now.  setItem
\* throws when the quota is exceeded (stored = FALSE).
saveDraft(stored) ==
    IF stored THEN DraftText(formData, uploadedFiles, Now) ELSE localStorage

\* mutant: the failure is reported as handleSaveDraft reports it
autoSaveDraftReports(stored) ==
    /\ pendingSaves.auto > 0
    /\ pendingSaves' = [pendingSaves EXCEPT !.auto = @ - 1]
    /\ localStorage' = saveDraft(stored)
    /\ errorMessage' = IF stored THEN errorMessage
                       ELSE "The quota has been exceeded."
    /\ UNCHANGED <<phase, currentStep, isLoading, formData,
                   uploadedFiles, validationErrors, autoSaveTimer, timeouts,
                   autoSaveInterval, otherComponents, pendingSubmits, events, editsUsed>>

\* autoSaveDraft resumes: the failure is caught and logged
autoSaveDraft(stored) ==
    /\ pendingSaves.auto > 0
    /\ pendingSaves' = [pendingSaves EXCEPT !.auto = @ - 1]
    /\ localStorage' = saveDraft(stored)
    /\ UNCHANGED <<phase, currentStep, isLoading, errorMessage, formData,
                   uploadedFiles, validationErrors, autoSaveTimer, timeouts, autoSaveInterval, otherComponents,
                   pendingSubmits, events, editsUsed>>

QuotaError == [message |-> "The quota has been exceeded."]

\* handleSaveDraft up to its await
handleSaveDraft ==
    /\ phase = "connected"
    /\ isLoading' = TRUE
    /\ pendingSaves' = [pendingSaves EXCEPT !.manual = @ + 1]
    /\ UNCHANGED <<phase, currentStep, errorMessage, formData, uploadedFiles,
                   validationErrors, autoSaveTimer, timeouts, autoSaveInterval, otherComponents, localStorage,
                   pendingSubmits, events, editsUsed>>

\* handleSaveDraft after its await: catch and finally
handleSaveDraftResumes(stored) ==
    /\ pendingSaves.manual > 0
    /\ pendingSaves' = [pendingSaves EXCEPT !.manual = @ - 1]
    /\ localStorage' = saveDraft(stored)
    /\ errorMessage' = IF stored THEN errorMessage ELSE reduceError(QuotaError)
    /\ isLoading' = FALSE
    /\ UNCHANGED <<phase, currentStep, formData, uploadedFiles, validationErrors,
                   autoSaveTimer, timeouts, autoSaveInterval, otherComponents, pendingSubmits, events, editsUsed>>

(***************************************************************************)
(* Edits.                                                                  *)
(***************************************************************************)
handleFieldChange(field, value) ==
    /\ phase = "connected"
    /\ formData' = [formData EXCEPT ![field] = value]
    /\ triggerAutoSave
    /\ validationErrors' = clearFieldValidationError(validationErrors, field)
    /\ editsUsed' = editsUsed + 1
    /\ UNCHANGED <<phase, currentStep, isLoading, errorMessage, uploadedFiles,
                   autoSaveInterval, otherComponents, localStorage, pendingSaves, pendingSubmits,
                   events>>

handleStudentChange(recordId) ==
    /\ phase = "connected"
    /\ formData' = [formData EXCEPT !.studentId = recordId]
    /\ triggerAutoSave
    /\ editsUsed' = editsUsed + 1
    /\ UNCHANGED <<phase, currentStep, isLoading, errorMessage, uploadedFiles,
                   validationErrors, autoSaveInterval, otherComponents, localStorage, pendingSaves,
                   pendingSubmits, events>>

handleUploadFinished(files) ==
    /\ phase = "connected"
    /\ uploadedFiles' = uploadedFiles \o files
    /\ triggerAutoSave
    /\ editsUsed' = editsUsed + 1
    /\ UNCHANGED <<phase, currentStep, isLoading, errorMessage, formData,
                   validationErrors, autoSaveInterval, otherComponents, localStorage, pendingSaves,
                   pendingSubmits, events>>

handleRemoveFile(fileId) ==
    /\ phase = "connected"
    /\ uploadedFiles' = SelectSeq(uploadedFiles, LAMBDA f : f.documentId # fileId)
    /\ triggerAutoSave
    /\ editsUsed' = editsUsed + 1
    /\ UNCHANGED <<phase, currentStep, isLoading, errorMessage, formData,
                   validationErrors, autoSaveInterval, otherComponents, localStorage, pendingSaves,
                   pendingSubmits, events>>

\* the entry handleAddStudent builds; the name is 'Student ' + id
newStudent(studentId) ==
    [id |-> studentId, name |-> <<"Student ", studentId>>, role |-> "Participant"]

\* the entry handleAddStaff builds
newStaff(staffId) ==
    [id |-> staffId, name |-> <<"Staff ", staffId>>, title |-> "Teacher"]

\* list.find(s => s.id === id) finds an entry
find(list, id) == \E i \in DOMAIN list : list[i].id = id

\* mutant: the picker's id is appended without looking for it in the list
handleAddStudentUnchecked(recordId) ==
    /\ phase = "connected"
    /\ IF Truthy(recordId)
       THEN /\ formData' = [formData EXCEPT
                                !.otherStudents = Append(@, newStudent(recordId))]
            /\ triggerAutoSave
            /\ editsUsed' = editsUsed + 1
       ELSE UNCHANGED <<formData, autoSaveTimer, timeouts, editsUsed>>
    /\ UNCHANGED <<phase, currentStep, isLoading, errorMessage, uploadedFiles,
                   validationErrors, autoSaveInterval, otherComponents, localStorage, pendingSaves,
                   pendingSubmits, events>>

handleAddStudent(recordId) ==
    /\ phase = "connected"
    /\ IF Truthy(recordId) /\ ~find(formData.otherStudents, recordId)
       THEN /\ formData' = [formData EXCEPT
                                !.otherStudents = Append(@, newStudent(recordId))]
            /\ triggerAutoSave
            /\ editsUsed' = editsUsed + 1
       ELSE UNCHANGED <<formData, autoSaveTimer, timeouts, editsUsed>>
    /\ UNCHANGED <<phase, currentStep, isLoading, errorMessage, uploadedFiles,
                   validationErrors, autoSaveInterval, otherComponents, localStorage, pendingSaves,
                   pendingSubmits, events>>

\* mutant: the entry is cut out by position, list.splice(list.findIndex(..), 1),
\* which cuts the last entry when the id is not found (index -1)
handleRemoveStudentSplice(studentId) ==
    /\ phase = "connected"
    /\ LET list == formData.otherStudents
           hits == {i \in DOMAIN list : list[i].id = studentId}
           at == IF hits = {} THEN Len(list)
                 ELSE CHOOSE i \in hits : \A j \in hits : i <= j
       IN  formData' = [formData EXCEPT
                           !.otherStudents =
                               IF list = <<>> THEN <<>>
                               ELSE [i \in 1..(Len(list) - 1) |->
                                       IF i < at THEN list[i] ELSE list[i + 1]]]
    /\ triggerAutoSave
    /\ editsUsed' = editsUsed + 1
    /\ UNCHANGED <<phase, currentStep, isLoading, errorMessage, uploadedFiles,
                   validationErrors, autoSaveInterval, otherComponents, localStorage, pendingSaves,
                   pendingSubmits, events>>

handleRemoveStudent(studentId) ==
    /\ phase = "connected"
    /\ formData' = [formData EXCEPT
                        !.otherStudents = SelectSeq(@, LAMBDA s : s.id # studentId)]
    /\ triggerAutoSave
    /\ editsUsed' = editsUsed + 1
    /\ UNCHANGED <<phase, currentStep, isLoading, errorMessage, uploadedFiles,
                   validationErrors, autoSaveInterval, otherComponents, localStorage, pendingSaves,
                   pendingSubmits, events>>

handleAddStaff(recordId) ==
    /\ phase = "connected"
    /\ IF Truthy(recordId) /\ ~find(formData.staffMembers, recordId)
       THEN /\ formData' = [formData EXCEPT
                                !.staffMembers = Append(@, newStaff(recordId))]
            /\ triggerAutoSave
            /\ editsUsed' = editsUsed + 1
       ELSE UNCHANGED <<formData, autoSaveTimer, timeouts, editsUsed>>
    /\ UNCHANGED <<phase, currentStep, isLoading, errorMessage, uploadedFiles,
                   validationErrors, autoSaveInterval, otherComponents, localStorage, pendingSaves,
                   pendingSubmits, events>>

handleRemoveStaff(staffId) ==
    /\ phase = "connected"
    /\ formData' = [formData EXCEPT
                        !.staffMembers = SelectSeq(@, LAMBDA s : s.id # staffId)]
    /\ triggerAutoSave
    /\ editsUsed' = editsUsed + 1
    /\ UNCHANGED <<phase, currentStep, isLoading, errorMessage, uploadedFiles,
                   validationErrors, autoSaveInterval, otherComponents, localStorage, pendingSaves,
                   pendingSubmits, events>>

clearError ==
    /\ phase = "connected"
    /\ errorMessage' = ""
    /\ UNCHANGED <<phase, currentStep, isLoading, formData, uploadedFiles,
                   validationErrors, autoSaveTimer, timeouts, autoSaveInterval, otherComponents, localStorage,
                   pendingSaves, pendingSubmits, events, editsUsed>>

(***************************************************************************)
(* Navigation.                                                             *)
(***************************************************************************)
\* mutant: going back asks for a valid current step, as going forward does
handlePreviousValidated ==
    /\ phase = "connected"
    /\ LET currentIndex == IndexOf(currentStep)
       IN  currentStep' = IF currentIndex > 1 /\ isCurrentStepValid(currentStep, formData)
                          THEN steps[currentIndex - 1]
                          ELSE currentStep
    /\ UNCHANGED <<phase, isLoading, errorMessage, formData, uploadedFiles,
                   validationErrors, autoSaveTimer, timeouts, autoSaveInterval, otherComponents, localStorage,
                   pendingSaves, pendingSubmits, events, editsUsed>>

handlePrevious ==
    /\ phase = "connected"
    /\ LET currentIndex == IndexOf(currentStep)
       IN  currentStep' = IF currentIndex > 1 THEN steps[currentIndex - 1]
                          ELSE currentStep
    /\ UNCHANGED <<phase, isLoading, errorMessage, formData, uploadedFiles,
                   validationErrors, autoSaveTimer, timeouts, autoSaveInterval, otherComponents, localStorage,
                   pendingSaves, pendingSubmits, events, editsUsed>>

\* mutant: the errors found on entering a step are added to those already
\* recorded, not put in their place
handleNextPatchesErrors ==
    /\ phase = "connected"
    /\ LET currentIndex == IndexOf(currentStep)
       IN  IF isCurrentStepValid(currentStep, formData) /\ currentIndex < Len(steps)
           THEN /\ currentStep' = steps[currentIndex + 1]
                /\ validationErrors' =
                      validationErrors
                      \o SelectSeq(validateCurrentStep(currentStep', formData),
                                   LAMBDA id : \A i \in DOMAIN validationErrors :
                                                   validationErrors[i] # id)
           ELSE UNCHANGED <<currentStep, validationErrors>>
    /\ UNCHANGED <<phase, isLoading, errorMessage, formData, uploadedFiles,
                   autoSaveTimer, timeouts, autoSaveInterval, otherComponents, localStorage,
                   pendingSaves, pendingSubmits, events, editsUsed>>

\* mutant: a valid step sends the wizard straight to the review step
handleNextToReview ==
    /\ phase = "connected"
    /\ LET currentIndex == IndexOf(currentStep)
       IN  IF isCurrentStepValid(currentStep, formData) /\ currentIndex < Len(steps)
           THEN /\ currentStep' = steps[Len(steps)]
                /\ validationErrors' = validateCurrentStep(currentStep', formData)
           ELSE UNCHANGED <<currentStep, validationErrors>>
    /\ UNCHANGED <<phase, isLoading, errorMessage, formData, uploadedFiles,
                   autoSaveTimer, timeouts, autoSaveInterval, otherComponents, localStorage, pendingSaves,
                   pendingSubmits, events, editsUsed>>

\* mutant: the step predicate is not consulted
handleNextUnchecked ==
    /\ phase = "connected"
    /\ LET currentIndex == IndexOf(currentStep)
       IN  IF currentIndex < Len(steps)
           THEN /\ currentStep' = steps[currentIndex + 1]
                /\ validationErrors' = validateCurrentStep(currentStep', formData)
           ELSE UNCHANGED <<currentStep, validationErrors>>
    /\ UNCHANGED <<phase, isLoading, errorMessage, formData, uploadedFiles,
                   autoSaveTimer, timeouts, autoSaveInterval, otherComponents, localStorage, pendingSaves,
                   pendingSubmits, events, editsUsed>>

handleNext ==
    /\ phase = "connected"
    /\ LET currentIndex == IndexOf(currentStep)
       IN  IF isCurrentStepValid(currentStep, formData) /\ currentIndex < Len(steps)
           THEN /\ currentStep' = steps[currentIndex + 1]
                /\ validationErrors' = validateCurrentStep(currentStep', formData)
           ELSE UNCHANGED <<currentStep, validationErrors>>
    /\ UNCHANGED <<phase, isLoading, errorMessage, formData, uploadedFiles,
                   autoSaveTimer, timeouts, autoSaveInterval, otherComponents, localStorage, pendingSaves,
                   pendingSubmits, events, editsUsed>>

(***************************************************************************)
(* Submission.                                                             *)
(***************************************************************************)
ValidationError == [message |-> "Please complete all required fields"]

\* mutant: the draft is removed whether or not the record was accepted
handleSubmitAlwaysClears ==
    /\ phase = "connected"
    /\ IF isFormValid(formData)
       THEN /\ isLoading' = TRUE
            /\ pendingSubmits' = pendingSubmits + 1
            /\ UNCHANGED <<errorMessage, localStorage>>
       ELSE /\ errorMessage' = "Please complete all required fields"
            /\ isLoading' = FALSE
            /\ localStorage' = [present |-> FALSE]
            /\ UNCHANGED pendingSubmits
    /\ UNCHANGED <<phase, currentStep, formData, uploadedFiles, validationErrors,
                   autoSaveTimer, timeouts, autoSaveInterval, otherComponents, pendingSaves, events, editsUsed>>

\* handleSubmit up to its await, or through catch and finally when the
\* record is rejected (the throw comes before any await)
handleSubmit ==
    /\ phase = "connected"
    /\ IF isFormValid(formData)
       THEN /\ isLoading' = TRUE
            /\ pendingSubmits' = pendingSubmits + 1
            /\ UNCHANGED errorMessage
       ELSE /\ errorMessage' = reduceError(ValidationError)
            /\ isLoading' = FALSE
            /\ UNCHANGED pendingSubmits
    /\ UNCHANGED <<phase, currentStep, formData, uploadedFiles, validationErrors,
                   autoSaveTimer, timeouts, autoSaveInterval, otherComponents, localStorage, pendingSaves,
                   events, editsUsed>>

\* the CustomEvent of handleSubmit; draftPresent records whether the draft
\* entry exists at the moment of the (synchronous) dispatch
incidentsubmitted(entry) ==
    [type |-> "incidentsubmitted", success |-> TRUE,
     message |-> "Incident report submitted successfully",
     incidentId |-> <<"INC-", Now>>, draftPresent |-> entry.present]

\* submitIncident after its await: removeItem
submitIncident == NoDraft

\* handleSubmit after the await of submitIncident: removeItem, dispatch, finally
handleSubmitResumes ==
    /\ pendingSubmits > 0
    /\ pendingSubmits' = pendingSubmits - 1
    /\ localStorage' = submitIncident
    /\ events' = Append(events, incidentsubmitted(localStorage'))
    /\ isLoading' = FALSE
    /\ UNCHANGED <<phase, currentStep, errorMessage, formData, uploadedFiles,
                   validationErrors, autoSaveTimer, timeouts, autoSaveInterval, otherComponents, pendingSaves,
                   editsUsed>>

\* the exploration stops making edits after MaxEdits of them
MayEdit == editsUsed < MaxEdits

\* the exploration lets at most limit submissions be suspended at a time and
\* stops submitting after most events
MaySubmit(limit, most) ==
    isFormValid(formData) =>
        pendingSubmits < limit /\ Len(events) + pendingSubmits < most

\* the exploration lets at most limit explicit saves be suspended at a time
MaySave(limit) == pendingSaves.manual < limit

\* the CustomEvent of handleCancel
formcancelled == [type |-> "formcancelled"]

\* handleCancel; confirmed is the answer to confirm(), asked only when
\* hasUnsavedChanges() holds
handleCancel(confirmed) ==
    /\ phase = "connected"
    /\ events' = IF hasUnsavedChanges(localStorage, formData) /\ ~confirmed
                 THEN events
                 ELSE Append(events, formcancelled)
    /\ UNCHANGED <<phase, currentStep, isLoading, errorMessage, formData,
                   uploadedFiles, validationErrors, autoSaveTimer, timeouts,
                   autoSaveInterval, otherComponents, localStorage, pendingSaves, pendingSubmits,
                   editsUsed>>

Next ==
    \/ \E P \in ApiStudentIds : connectedCallback(P)
    \/ disconnectedCallback
    \/ Reload
    \/ autoSaveTimerFires
    \/ autoSaveIntervalTicks
    \/ \E stored \in BOOLEAN : autoSaveDraft(stored)
    \/ MaySave(MaxInFlight) /\ handleSaveDraft
    \/ \E stored \in BOOLEAN : handleSaveDraftResumes(stored)
    \/ MayEdit /\ \E input \in EditInputs : handleFieldChange(input[1], input[2])
    \/ MayEdit /\ \E recordId \in PickerIds : handleStudentChange(recordId)
    \/ MayEdit /\ Len(uploadedFiles) < MaxFiles
          /\ \E file \in Files : handleUploadFinished(<<file>>)
    \/ MayEdit /\ \E file \in Files : handleRemoveFile(file.documentId)
    \/ clearError
    \/ handlePrevious
    \/ handleNext
    \/ MaySubmit(MaxInFlight, MaxEvents) /\ handleSubmit
    \/ handleSubmitResumes

Spec == Init /\ [][Next]_vars

(***************************************************************************)
(* The same component mounted over every draft an earlier session can     *)
(* have left, and driven without further edits.                            *)
(***************************************************************************)
InitWide ==
    /\ Constructed
    /\ OtherComponentsConstructed
    /\ localStorage \in AllDrafts \cup {NoDraft}
    /\ editsUsed = 0

NextWide ==
    \/ \E P \in ApiStudentIds : connectedCallback(P)
    \/ Reload
    \/ autoSaveIntervalTicks
    \/ \E stored \in BOOLEAN : autoSaveDraft(stored)
    \/ MaySave(MaxInFlight) /\ handleSaveDraft
    \/ \E stored \in BOOLEAN : handleSaveDraftResumes(stored)
    \/ handlePrevious
    \/ handleNext
    \/ MaySubmit(MaxInFlight, MaxEvents) /\ handleSubmit
    \/ handleSubmitResumes

SpecWide == InitWide /\ [][NextWide]_vars

(***************************************************************************)
(* The component driven through every edit handler: the fields and the    *)
(* three collections (other students, staff members, uploaded files).  It  *)
(* starts without a draft or over the draft of a report that already names *)
(* participants and files.                                                 *)
(***************************************************************************)
CrowdRecord ==
    [Step1Record EXCEPT
        !.otherStudents = <<newStudent("stu-003"), newStudent("stu-004"),
                            newStudent("stu-005")>>,
        !.staffMembers = <<newStaff("stf-01"), newStaff("stf-02")>>]

CrowdFiles ==
    <<[documentId |-> "doc-1", name |-> "photo.png"],
      [documentId |-> "doc-2", name |-> "note.pdf"]>>

UploadBatches ==
    {<<[documentId |-> "doc-1", name |-> "photo.png"]>>,
     <<[documentId |-> "doc-2", name |-> "note.pdf"],
       [documentId |-> "doc-3", name |-> "scan.pdf"]>>}

FileIds == {"", "doc-1", "doc-2", "doc-3"}

InitCollections ==
    /\ Constructed
    /\ OtherComponentsConstructed
    /\ localStorage \in {NoDraft, DraftText(CrowdRecord, CrowdFiles, Earlier)}
    /\ editsUsed = 0

NextCollections ==
    \/ \E P \in ApiStudentIds : connectedCallback(P)
    \/ Reload
    \/ autoSaveTimerFires
    \/ \E stored \in BOOLEAN : autoSaveDraft(stored)
    \/ MayEdit /\ \E input \in EditInputs : handleFieldChange(input[1], input[2])
    \/ MayEdit /\ \E recordId \in PickerIds : handleStudentChange(recordId)
    \/ MayEdit /\ \E recordId \in StudentIds : handleAddStudent(recordId)
    \/ MayEdit /\ \E studentId \in StudentIds : handleRemoveStudent(studentId)
    \/ MayEdit /\ \E recordId \in StaffIds : handleAddStaff(recordId)
    \/ MayEdit /\ \E staffId \in StaffIds : handleRemoveStaff(staffId)
    \/ MayEdit /\ \E files \in UploadBatches : handleUploadFinished(files)
    \/ MayEdit /\ \E fileId \in FileIds : handleRemoveFile(fileId)

SpecCollections == InitCollections /\ [][NextCollections]_vars

(***************************************************************************)
(* A new report typed in from nothing: no draft, the six inputs of the     *)
(* first two steps filled one by one in any order, a short description     *)
(* before or after the long one, and navigation at any moment.             *)
(***************************************************************************)
TraceInputs ==
    {<<"incidentDateTime", Earlier>>, <<"location", "classroom">>,
     <<"incidentType", "disruption">>, <<"severityLevel", "Low">>,
     <<"incidentDescription", "fight">>, <<"incidentDescription", "he pushed Sam">>}

InitTrace ==
    /\ Constructed
    /\ OtherComponentsConstructed
    /\ localStorage = NoDraft
    /\ editsUsed = 0

NextTrace ==
    \/ connectedCallback("")
    \/ autoSaveTimerFires
    \/ \E stored \in BOOLEAN : autoSaveDraft(stored)
    \/ editsUsed < MaxTraceEdits
          /\ \E input \in TraceInputs : handleFieldChange(input[1], input[2])
    \/ editsUsed < MaxTraceEdits /\ handleStudentChange("stu-001")
    \/ handlePrevious
    \/ handleNext

SpecTrace == InitTrace /\ [][NextTrace]_vars

(***************************************************************************)
(* The end of a report: a form mounted empty or over the draft of a record *)
(* that is ready to be submitted, edited a little, then submitted or       *)
(* cancelled.                                                              *)
(***************************************************************************)
ReadyRecord == [HighRecord EXCEPT !.approverId = "usr-9"]

InitClosing ==
    /\ Constructed
    /\ OtherComponentsConstructed
    /\ localStorage \in {NoDraft,
                          DraftText(ReadyRecord,
                                    <<[documentId |-> "doc-1", name |-> "photo.png"]>>,
                                    Earlier)}
    /\ editsUsed = 0

\* the exploration stops dispatching after MaxEvents events
MayDispatch == Len(events) + pendingSubmits < MaxEvents

NextClosing ==
    \/ \E P \in ApiStudentIds : connectedCallback(P)
    \/ autoSaveTimerFires
    \/ \E stored \in BOOLEAN : autoSaveDraft(stored)
    \/ MayEdit /\ \E input \in EditInputs : handleFieldChange(input[1], input[2])
    \/ MaySubmit(MaxInFlight, MaxEvents) /\ handleSubmit
    \/ handleSubmitResumes
    \/ MayDispatch /\ \E confirmed \in BOOLEAN : handleCancel(confirmed)

SpecClosing == InitClosing /\ [][NextClosing]_vars

(***************************************************************************)
(* Calls of the two asynchronous button handlers made while an earlier     *)
(* call is still suspended at its await: up to MaxOverlap at a time.       *)
(***************************************************************************)
NextOverlap ==
    \/ \E P \in ApiStudentIds : connectedCallback(P)
    \/ MayEdit /\ \E input \in EditInputs : handleFieldChange(input[1], input[2])
    \/ MaySave(MaxOverlap) /\ handleSaveDraft
    \/ \E stored \in BOOLEAN : handleSaveDraftResumes(stored)
    \/ MaySubmit(MaxOverlap, MaxOverlap) /\ handleSubmit
    \/ handleSubmitResumes

SpecOverlap == InitClosing /\ [][NextOverlap]_vars

(***************************************************************************)
(* The three ways to save racing with edits, over a storage that accepts   *)
(* every write, in one session (no teardown, no submission).               *)
(***************************************************************************)
NextRace ==
    \/ \E P \in ApiStudentIds : connectedCallback(P)
    \/ autoSaveTimerFires
    \/ autoSaveIntervalTicks
    \/ autoSaveDraft(TRUE)
    \/ MaySave(MaxOverlap) /\ handleSaveDraft
    \/ handleSaveDraftResumes(TRUE)
    \/ MayEdit /\ \E input \in EditInputs : handleFieldChange(input[1], input[2])
    \/ MayEdit /\ \E recordId \in PickerIds : handleStudentChange(recordId)
    \/ MayEdit /\ \E files \in UploadBatches : handleUploadFinished(files)
    \/ MayEdit /\ \E fileId \in FileIds : handleRemoveFile(fileId)

SpecRace == Init /\ [][NextRace]_vars

(***************************************************************************)
(* Properties.                                                             *)
(***************************************************************************)
Connected == phase = "connected"

\* C1: from each of the steps S1..S5, handleNext leaves currentStep as it is
\* when the step's validation predicate is false and moves to exactly the
\* next step when it is true; with a true predicate the move is always made.
C1_NextFollowsStepPredicate ==
    /\ [][handleNext /\ currentStepNumber <= 5 =>
            currentStep' = IF isCurrentStepValid(currentStep, formData)
                           THEN steps[currentStepNumber + 1]
                           ELSE currentStep]_vars
    /\ [](Connected /\ currentStepNumber <= 5
            /\ isCurrentStepValid(currentStep, formData)
          => ENABLED (handleNext /\ currentStep' = steps[currentStepNumber + 1]))
    /\ [](Connected /\ ~isCurrentStepValid(currentStep, formData)
          => ~ENABLED (handleNext /\ currentStep' # currentStep))

C1_Witness ==
    /\ Connected
    /\ currentStep = "step5"
    /\ formData.severityLevel = "Critical"

\* C2: handlePrevious moves from S(n) to S(n-1) for every n in 2..6 whatever
\* the record holds, and leaves the step as it is at S1.
C2_PreviousUnconditional ==
    /\ [][handlePrevious =>
            currentStep' = IF currentStepNumber >= 2
                           THEN steps[currentStepNumber - 1]
                           ELSE currentStep]_vars
    /\ [](Connected /\ currentStepNumber >= 2
          => ENABLED (handlePrevious /\ currentStep' = steps[currentStepNumber - 1]))

\* back at S5 from S6: errors are recorded only on entering S6, and entering
\* S5 through handleNext would have emptied them
C2_Witness ==
    /\ Connected
    /\ currentStep = "step5"
    /\ validationErrors # <<>>

\* C3: a constructed instance is at S1, the current step is always one of
\* the six steps, and no operation of an instance moves it by more than one.
C3_StepsAreLinear ==
    /\ [](phase = "constructed" => currentStep = "step1")
    /\ [](\E i \in 1..6 : currentStep = steps[i])
    /\ [][phase' # "constructed" =>
            /\ IndexOf(currentStep') - IndexOf(currentStep) <= 1
            /\ IndexOf(currentStep) - IndexOf(currentStep') <= 1]_vars

\* S6 reached by an instance that was edited twice on the way
C3_Witness ==
    /\ Connected
    /\ currentStep = "step6"
    /\ editsUsed = MaxEdits

\* C4: whenever a simulated submission is in flight, and whenever it raises
\* 'incidentsubmitted', the current step is S6 and isFormValid holds.
C4_SubmitOnlyFromValidS6 ==
    /\ [](pendingSubmits > 0 => currentStep = "step6" /\ isFormValid(formData))
    /\ [][handleSubmitResumes => currentStep = "step6" /\ isFormValid(formData)]_vars

\* the seven required fields hold something other than whitespace
RequiredFieldsFilled(fd) ==
    \A field \in requiredFields : fd[field] # "" /\ TrimLength(fd[field]) > 0

EscalationRequested(fd) == fd.escalationLevel \notin {"", "none"}

ApprovalNeeded(fd) ==
    fd.severityLevel \in {"High", "Critical"} \/ EscalationRequested(fd)

\* C5: with the other required fields valid (and a justification present
\* when escalation is requested), a record that needs approval (severity
\* High or Critical, or escalation requested) fails isFormValid without an
\* approver and passes with one.
C5_ApproverDecides ==
    Connected /\ RequiredFieldsFilled(formData) /\ ApprovalNeeded(formData)
        /\ (EscalationRequested(formData) => formData.escalationJustification # "")
    => (isFormValid(formData) <=> formData.approverId # "")

\* a Critical record with an approver whose submission was accepted
C5_Witness ==
    /\ Connected
    /\ formData.severityLevel = "Critical"
    /\ formData.escalationLevel = "principal"
    /\ formData.approverId # ""
    /\ pendingSubmits > 0

\* C6: isFormValid fails when escalation is requested and the justification
\* is empty; with escalation 'none' or unset a record that is valid
\* otherwise passes without a justification.
C6_JustificationRule ==
    Connected =>
        /\ EscalationRequested(formData) /\ formData.escalationJustification = ""
            => ~isFormValid(formData)
        /\ ~EscalationRequested(formData) /\ RequiredFieldsFilled(formData)
            /\ (ApprovalNeeded(formData) => formData.approverId # "")
            => isFormValid(formData)

\* escalation 'none', no justification, submission accepted
C6_Witness ==
    /\ Connected
    /\ formData.escalationLevel = "none"
    /\ formData.escalationJustification = ""
    /\ pendingSubmits > 0

\* C7: while a submission is in flight isLoading is true, the notification
\* is raised after the draft was removed, and isLoading is false once the
\* call has ended.
C7_SubmitSequence ==
    /\ [](pendingSubmits > 0 => isLoading)
    /\ [](\A i \in DOMAIN events : ~events[i].draftPresent)
    /\ [][handleSubmitResumes => ~isLoading' /\ Len(events') = Len(events) + 1]_vars

\* C8: a handleSubmit that rejects the record leaves one non-empty
\* errorMessage, raises no notification, starts no submission, ends with
\* isLoading false, and leaves formData, uploadedFiles and the stored draft
\* as they were.
C8_RejectedSubmit ==
    /\ [][handleSubmit /\ ~isFormValid(formData) =>
            /\ errorMessage' # ""
            /\ ~isLoading'
            /\ UNCHANGED <<events, pendingSubmits, formData, uploadedFiles,
                           localStorage>>]_vars
    /\ [](Connected /\ ~isFormValid(formData)
          => ENABLED (handleSubmit /\ errorMessage' # "" /\ ~isLoading'))

\* a rejected submit over a stored draft with an uploaded file
C8_Witness ==
    /\ Connected
    /\ ~isFormValid(formData)
    /\ errorMessage = "Please complete all required fields"
    /\ IsDraft(localStorage)
    /\ uploadedFiles # <<>>
    /\ events = <<>>

\* C9: once a submission of the mounted instance has succeeded, the draft
\* entry is absent and stays absent.
C9_DraftStaysCleared ==
    Connected /\ events # <<>> => ~localStorage.present

\* C10: a fresh instance that mounts over a draft saveDraft wrote holds the
\* saved record field for field and the saved file list.
C10_DraftRoundTrip ==
    Connected /\ IsDraft(localStorage) =>
        /\ DOMAIN formData = FieldNames
        /\ \A i \in DOMAIN localStorage.formData :
              formData[localStorage.formData[i].key] = localStorage.formData[i].value
        /\ Len(localStorage.formData) = Cardinality(FieldNames)
        /\ uploadedFiles = localStorage.uploadedFiles

\* an instance mounted with another student's id over a draft of an earlier
\* session
C10_Witness ==
    /\ Connected
    /\ IsDraft(localStorage)
    /\ localStorage.timestamp = Earlier
    /\ formData.studentId = "stu-001"
    /\ formData.incidentDateTime = Earlier
    /\ formData.incidentDescription = " ten chars "
    /\ uploadedFiles # <<>>

Range(seq) == {seq[i] : i \in DOMAIN seq}

\* the identifiers of the entries of a participant list, in order
Ids(list) == [i \in DOMAIN list |-> list[i].id]

NoDuplicates(seq) ==
    \A i, j \in DOMAIN seq : seq[i] = seq[j] => i = j

\* C11: otherStudents and staffMembers never hold two entries with the same
\* identifier, and handleAddStudent / handleAddStaff with an identifier that is
\* already in the list changes nothing, while a new identifier is appended.
C11_AddIsIdempotent ==
    /\ [](NoDuplicates(Ids(formData.otherStudents))
          /\ NoDuplicates(Ids(formData.staffMembers)))
    /\ [][\A id \in StudentIds :
            handleAddStudent(id) =>
                /\ id \in Range(Ids(formData.otherStudents)) => UNCHANGED vars
                /\ id \notin Range(Ids(formData.otherStudents)) /\ id # "" =>
                      Ids(formData.otherStudents')
                          = Append(Ids(formData.otherStudents), id)]_vars
    /\ [][\A id \in StaffIds :
            handleAddStaff(id) =>
                /\ id \in Range(Ids(formData.staffMembers)) => UNCHANGED vars
                /\ id \notin Range(Ids(formData.staffMembers)) /\ id # "" =>
                      Ids(formData.staffMembers')
                          = Append(Ids(formData.staffMembers), id)]_vars
    /\ [](Connected =>
            \A id \in Range(Ids(formData.otherStudents)) :
                ~ENABLED (handleAddStudent(id) /\ formData' # formData))
    /\ [](Connected =>
            \A id \in Range(Ids(formData.staffMembers)) :
                ~ENABLED (handleAddStaff(id) /\ formData' # formData))

\* both pickers have added to the lists of a form that started empty
C11_Witness ==
    /\ Connected
    /\ ~localStorage.present
    /\ Ids(formData.otherStudents) = <<"stu-004">>
    /\ Ids(formData.staffMembers) = <<"stf-01">>

\* the documentIds of the uploaded files, in order
DocumentIds(files) == [i \in DOMAIN files |-> files[i].documentId]

\* C12: handleUploadFinished with a file whose documentId is already in
\* uploadedFiles leaves the list unchanged, and uploadedFiles never holds two
\* entries with the same documentId.
C12_UploadIsIdempotent ==
    /\ [][\A files \in UploadBatches :
            handleUploadFinished(files)
            /\ Range(DocumentIds(files)) \subseteq Range(DocumentIds(uploadedFiles))
            => uploadedFiles' = uploadedFiles]_vars
    /\ [](NoDuplicates(DocumentIds(uploadedFiles)))

\* new holds the entries of old at the positions keep, in the order of old
KeepsInOrder(old, new, keep) ==
    /\ Len(new) = Cardinality(keep)
    /\ \A i \in keep : new[Cardinality({j \in keep : j <= i})] = old[i]

\* C13: handleRemoveStudent, handleRemoveStaff and handleRemoveFile delete
\* exactly the entries with the given identifier and keep the others in their
\* order; with an identifier that is not in the list the list keeps its
\* contents; no call sets an error, touches another collection or is refused.
C13_RemoveExactlyById ==
    /\ [][\A id \in StudentIds :
            handleRemoveStudent(id) =>
                LET old == formData.otherStudents
                IN  /\ KeepsInOrder(old, formData.otherStudents',
                                    {i \in DOMAIN old : old[i].id # id})
                    /\ id \notin Range(Ids(old)) => formData' = formData
                    /\ formData.staffMembers' = formData.staffMembers
                    /\ UNCHANGED <<uploadedFiles, errorMessage>>]_vars
    /\ [][\A id \in StaffIds :
            handleRemoveStaff(id) =>
                LET old == formData.staffMembers
                IN  /\ KeepsInOrder(old, formData.staffMembers',
                                    {i \in DOMAIN old : old[i].id # id})
                    /\ id \notin Range(Ids(old)) => formData' = formData
                    /\ formData.otherStudents' = formData.otherStudents
                    /\ UNCHANGED <<uploadedFiles, errorMessage>>]_vars
    /\ [][\A id \in FileIds :
            handleRemoveFile(id) =>
                /\ KeepsInOrder(uploadedFiles, uploadedFiles',
                                {i \in DOMAIN uploadedFiles :
                                    uploadedFiles[i].documentId # id})
                /\ id \notin Range(DocumentIds(uploadedFiles)) =>
                      uploadedFiles' = uploadedFiles
                /\ UNCHANGED <<formData, errorMessage>>]_vars
    /\ [](Connected =>
            /\ \A id \in StudentIds : ENABLED handleRemoveStudent(id)
            /\ \A id \in StaffIds : ENABLED handleRemoveStaff(id)
            /\ \A id \in FileIds : ENABLED handleRemoveFile(id))

\* the middle one of the draft's three students has been removed
C13_Witness ==
    /\ Connected
    /\ editsUsed = 1
    /\ Ids(formData.otherStudents) = <<"stu-003", "stu-005">>
    /\ Ids(formData.staffMembers) = <<"stf-01", "stf-02">>
    /\ DocumentIds(uploadedFiles) = <<"doc-1", "doc-2">>

\* the id of the error validateFinalSubmission records for a field
ErrorOf(field) ==
    CASE field = "studentId" -> "student"
      [] field = "incidentDescription" -> "description"
      [] field = "immediateResponse" -> "response"
      [] field = "approverId" -> "approval"
      [] field = "escalationJustification" -> "escalation"
      [] OTHER -> "none"

\* C14: handleFieldChange on a field removes the error recorded for that
\* field from validationErrors and leaves the errors of the other fields.
C14_EditClearsFieldError ==
    [][\A input \in EditInputs :
        handleFieldChange(input[1], input[2]) =>
            validationErrors'
                = SelectSeq(validationErrors, LAMBDA id : id # ErrorOf(input[1]))]_vars

\* C15: once disconnectedCallback has run, no debounce callback is pending,
\* the 30-second interval no longer runs, and the draft entry is not written.
C15_TimersClearedOnTeardown ==
    /\ [](phase = "disconnected" => timeouts = 0 /\ ~autoSaveInterval)
    /\ [][phase = "disconnected" => localStorage' = localStorage]_vars

\* C16: an auto-save whose setItem fails changes none of errorMessage,
\* isLoading, currentStep, formData (nor the stored draft), and whatever has
\* failed before, field changes, navigation and saves are still carried out:
\* a pending auto-save that is accepted stores the record as it is now.
C16_AutoSaveIsBestEffort ==
    /\ [][autoSaveDraft(FALSE) =>
            UNCHANGED <<errorMessage, isLoading, currentStep, formData,
                        uploadedFiles, validationErrors, localStorage, phase>>]_vars
    /\ [](Connected =>
            /\ \A input \in EditInputs :
                  ENABLED (handleFieldChange(input[1], input[2])
                           /\ formData'[input[1]] = input[2] /\ timeouts' = 1)
            /\ ENABLED handleNext
            /\ ENABLED handlePrevious
            /\ pendingSaves.manual < MaxInFlight => ENABLED handleSaveDraft)
    /\ [](pendingSaves.auto > 0 =>
            ENABLED (autoSaveDraft(TRUE)
                     /\ localStorage' = DraftText(formData, uploadedFiles, Now)))

\* the debounce callback has run and its save has ended, no submission has
\* removed the draft, and still there is none: setItem has failed
C16_Witness ==
    /\ Connected
    /\ autoSaveTimer = "done"
    /\ pendingSaves = [auto |-> 0, manual |-> 0]
    /\ pendingSubmits = 0
    /\ events = <<>>
    /\ ~localStorage.present
    /\ errorMessage = ""

\* the number of characters from the first to the last one that is not
\* whitespace (0 when there is none)
TrimmedSpan(s) ==
    LET cs == Chars(s)
        solid == {i \in DOMAIN cs : cs[i] \notin Whitespace}
    IN  IF solid = {} THEN 0
        ELSE (CHOOSE i \in solid : \A j \in solid : j <= i)
             - (CHOOSE i \in solid : \A j \in solid : i <= j) + 1

\* C17: the step predicate is true at S1 exactly when studentId,
\* incidentDateTime, location, incidentType and severityLevel are all
\* non-empty, at S2 exactly when the trimmed description is longer than 10,
\* at S4 exactly when the trimmed immediate response is longer than 5, at S6
\* exactly when no approval is required or an approver is given, and always
\* at S3 and S5.
C17_StepPredicates ==
    LET fd == formData
    IN  /\ isCurrentStepValid("step1", fd)
              <=> \A field \in {"studentId", "incidentDateTime", "location",
                                 "incidentType", "severityLevel"} : fd[field] # ""
        /\ isCurrentStepValid("step2", fd) <=> TrimmedSpan(fd.incidentDescription) > 10
        /\ isCurrentStepValid("step3", fd)
        /\ isCurrentStepValid("step4", fd) <=> TrimmedSpan(fd.immediateResponse) > 5
        /\ isCurrentStepValid("step5", fd)
        /\ isCurrentStepValid("step6", fd)
              <=> (ApprovalNeeded(fd) => fd.approverId # "")

\* at S2 with a description of ten characters between two blanks
C17_Witness ==
    /\ Connected
    /\ currentStep = "step2"
    /\ formData.incidentDescription = " ten chars "
    /\ formData.immediateResponse = "called"
    /\ formData.severityLevel = "High"
    /\ formData.approverId = ""

\* the five inputs of the first step hold a value
FirstStepFilled ==
    \A field \in {"studentId", "incidentDateTime", "location", "incidentType",
                   "severityLevel"} : formData[field] # ""

\* C18: a report typed into an empty form.  At S1 with nothing entered
\* handleNext changes nothing; with the five inputs of S1 filled it moves to
\* S2 and nowhere else; at S2 with the five-character description "fight" it
\* changes nothing; with a description longer than 10 characters it moves
\* to S3 and nowhere else.
C18_WizardTrace ==
    /\ [](Connected /\ currentStep = "step1"
            /\ formData = [DefaultFormData EXCEPT !.incidentDateTime = Now]
          => ~ENABLED (handleNext /\ vars' # vars))
    /\ [](Connected /\ currentStep = "step1" /\ FirstStepFilled
          => /\ ENABLED (handleNext /\ currentStep' = "step2")
             /\ ~ENABLED (handleNext /\ currentStep' # "step2"))
    /\ [](Connected /\ currentStep = "step2"
            /\ formData.incidentDescription = "fight"
          => ~ENABLED (handleNext /\ vars' # vars))
    /\ [](Connected /\ currentStep = "step2"
            /\ TrimmedSpan(formData.incidentDescription) > 10
          => /\ ENABLED (handleNext /\ currentStep' = "step3")
             /\ ~ENABLED (handleNext /\ currentStep' # "step3"))
    /\ [][currentStep' # currentStep => handleNext \/ handlePrevious]_vars

\* S3 reached from the empty form: the four missing inputs of S1 and both
\* descriptions have been typed
C18_Witness ==
    /\ Connected
    /\ currentStep = "step3"
    /\ ~localStorage.present
    /\ editsUsed = 6
    /\ formData.incidentDateTime = Now
    /\ formData.incidentDescription = "he pushed Sam"

\* formData holds no value of a report (the time initializeForm presets aside)
Cleared(fd) ==
    \A field \in FieldNames \ {"incidentDateTime"} : fd[field] = DefaultFormData[field]

\* C19: when handleSubmit has succeeded, and when handleCancel has raised
\* 'formcancelled', formData holds no value of the report and uploadedFiles
\* is empty.
C19_RecordClearedAtEnd ==
    /\ [][handleSubmitResumes => Cleared(formData') /\ uploadedFiles' = <<>>]_vars
    /\ [][\A confirmed \in BOOLEAN :
            handleCancel(confirmed) /\ events' # events =>
                Cleared(formData') /\ uploadedFiles' = <<>>]_vars

\* C20: every edit that is applied leaves exactly one debounce callback
\* pending, the one the handle names, so there is never more than one; the
\* callback that runs after a burst of edits starts one auto-save and leaves
\* none pending; and the auto-save it started, when setItem accepts the
\* text, stores the record and the files as they are at that moment.
C20_Debounce ==
    /\ [](timeouts <= 1)
    /\ [](timeouts = 1 <=> autoSaveTimer = "pending")
    /\ [][editsUsed' # editsUsed =>
            timeouts' = 1 /\ autoSaveTimer' = "pending"]_vars
    /\ [][formData' # formData /\ phase' = phase =>
            editsUsed' # editsUsed]_vars
    /\ [][autoSaveTimerFires =>
            /\ timeouts' = 0
            /\ pendingSaves'.auto = pendingSaves.auto + 1
            /\ UNCHANGED localStorage]_vars
    /\ [](timeouts = 1 /\ pendingSaves.auto < MaxInFlight => ENABLED autoSaveTimerFires)
    /\ [](pendingSaves.auto > 0 =>
            ENABLED (autoSaveDraft(TRUE)
                     /\ IsDraft(localStorage')
                     /\ JSONparse(localStorage'.formData) = formData
                     /\ localStorage'.uploadedFiles = uploadedFiles))

\* two edits (a field and a removal from the draft's students), then the one
\* callback and its save
C20_Witness ==
    /\ Connected
    /\ editsUsed = 2
    /\ autoSaveTimer = "done"
    /\ timeouts = 0
    /\ pendingSaves.auto = 0
    /\ IsDraft(localStorage)
    /\ localStorage.timestamp = Now
    /\ JSONparse(localStorage.formData) = formData
    /\ formData.submissionNotes = "urgent"
    /\ Ids(formData.otherStudents) = <<"stu-003", "stu-005">>

\* the record or the uploaded files differ from the stored snapshot, or
\* there is no readable snapshot
Diverged ==
    \/ ~IsDraft(localStorage)
    \/ JSONparse(localStorage.formData) # formData
    \/ localStorage.uploadedFiles # uploadedFiles

\* C21: a tick of the 30-second timer starts a save when the record or the
\* uploaded files differ from the stored snapshot or no snapshot exists, and
\* starts none when they equal it.
C21_TickPersistsDivergence ==
    /\ [](autoSaveInterval /\ Diverged /\ pendingSaves.auto < MaxInFlight
          => ENABLED (autoSaveIntervalTicks
                      /\ pendingSaves'.auto = pendingSaves.auto + 1))
    /\ [](autoSaveInterval /\ ~Diverged
          => ~ENABLED (autoSaveIntervalTicks /\ pendingSaves' # pendingSaves))

\* the ids of the errors the review step is to show for a record
ExpectedErrors(fd) ==
    {id \in {"student", "description", "response", "approval", "escalation"} :
        \/ id = "student" /\ fd.studentId = ""
        \/ id = "description" /\ TrimmedSpan(fd.incidentDescription) < 10
        \/ id = "response" /\ TrimmedSpan(fd.immediateResponse) < 5
        \/ id = "approval" /\ ApprovalNeeded(fd) /\ fd.approverId = ""
        \/ id = "escalation" /\ EscalationRequested(fd)
                              /\ fd.escalationJustification = ""}

\* C22: a handleNext that moves to S6 leaves in validationErrors exactly the
\* errors of the record as it is now, each once, whatever was recorded
\* before; a handleNext that moves to one of S2..S5 leaves it empty.
C22_ReviewRecomputesErrors ==
    [][handleNext /\ currentStep' # currentStep =>
        IF currentStep' = "step6"
        THEN /\ Range(validationErrors') = ExpectedErrors(formData)
             /\ NoDuplicates(validationErrors')
        ELSE validationErrors' = <<>>]_vars

\* S6 entered after the description was cut short at S5, approver missing
C22_Witness ==
    /\ Connected
    /\ currentStep = "step6"
    /\ formData.incidentDescription = "fight"
    /\ formData.severityLevel = "High"
    /\ validationErrors = <<"description", "approval">>

\* C23: a record isFormValid accepts satisfies the step predicate of each of
\* the six steps, and handleSubmit starts a submission only for such a record.
C23_FormValidImpliesSteps ==
    /\ [](isFormValid(formData) =>
            \A i \in DOMAIN steps : isCurrentStepValid(steps[i], formData))
    /\ [][handleSubmit /\ pendingSubmits' > pendingSubmits =>
            \A i \in DOMAIN steps : isCurrentStepValid(steps[i], formData)]_vars

\* C24: at most one submission started by handleSubmit and at most one
\* save started by handleSaveDraft is suspended at any time: a call made
\* while an earlier one is suspended starts nothing.
C24_SingleTaskInFlight ==
    /\ pendingSubmits <= 1
    /\ pendingSaves.manual <= 1

\* C25: with a storage that accepts every write, each write to the draft
\* entry stores the record and the files as they are at that moment, and
\* once an edit has been made, no debounce callback is pending and no save
\* is suspended, the stored formData and uploadedFiles equal those in memory.
C25_LastWriteWins ==
    /\ [][localStorage' # localStorage =>
            /\ IsDraft(localStorage')
            /\ JSONparse(localStorage'.formData) = formData
            /\ localStorage'.uploadedFiles = uploadedFiles]_vars
    /\ [](Connected /\ editsUsed > 0 /\ timeouts = 0
            /\ pendingSaves = [auto |-> 0, manual |-> 0]
          => ~Diverged)

\* a field and the file list have been edited while saves were racing, and
\* everything has come to rest
C25_Witness ==
    /\ Connected
    /\ editsUsed = 2
    /\ timeouts = 0
    /\ pendingSaves = [auto |-> 0, manual |-> 0]
    /\ formData.submissionNotes = "urgent"
    /\ DocumentIds(uploadedFiles) = <<"doc-1", "doc-2", "doc-3">>
    /\ errorMessage = ""

\* C26: when the form mounts with a student identifier P supplied by the
\* host, formData.studentId is P after connectedCallback, whatever draft the
\* storage holds.
C26_PreSeededStudent ==
    [][\A P \in ApiStudentIds :
        connectedCallback(P) /\ P # "" => formData'.studentId = P]_vars

(***************************************************************************)
(* ShoppingCart.  Amounts are JavaScript numbers of dollars in the code;   *)
(* here a number is its count of cents, which is exact where the code's    *)
(* floating point product is then rounded by toFixed(2).  A value of the   *)
(* cart's arithmetic carries its JavaScript type, because `+` and toFixed  *)
(* depend on it.                                                           *)
(***************************************************************************)
jsNumber(n) == [type |-> "number", value |-> n]

jsString(s) == [type |-> "string", text |-> s]

\* calling a method the value does not have
TypeError == [type |-> "TypeError"]

\* Number.prototype.toFixed(2)
toFixed(cents) ==
    ToString(cents \div 100) \o "."
        \o (IF cents % 100 < 10 THEN "0" ELSE "") \o ToString(cents % 100)

\* the text `+` makes of a number before it concatenates
NumberToString(cents) ==
    IF cents % 100 = 0 THEN ToString(cents \div 100)
    ELSE IF cents % 10 = 0
         THEN ToString(cents \div 100) \o "." \o ToString((cents % 100) \div 10)
         ELSE toFixed(cents)

\* a + b: addition of two numbers, concatenation as soon as one is a string
Plus(a, b) ==
    IF a.type = "number" /\ b.type = "number"
    THEN jsNumber(a.value + b.value)
    ELSE jsString((IF a.type = "number" THEN NumberToString(a.value) ELSE a.text)
                  \o (IF b.type = "number" THEN NumberToString(b.value) ELSE b.text))

\* parseFloat of a text that toFixed(2) wrote
parseFloat(text) == CHOOSE cents \in 0 .. 100000 : toFixed(cents) = text

\* cartItems.reduce((sum, item) => sum + item.totalPrice, sum)
RECURSIVE reduceTotalPrice(_, _)
reduceTotalPrice(items, sum) ==
    IF items = <<>> THEN sum
    ELSE reduceTotalPrice(Tail(items), Plus(sum, jsString(Head(items).totalPrice)))

\* get subtotal(): total.toFixed(2), which only a number has
subtotal(items) ==
    LET total == reduceTotalPrice(items, jsNumber(0))
    IN  IF total.type = "number" THEN jsString(toFixed(total.value)) ELSE TypeError

\* the two lines of the demonstration cart
mockCartItems ==
    << [id |-> "1", productId |-> "prod-1", price |-> 12999, quantity |-> 1,
        maxQuantity |-> 10],
       [id |-> "2", productId |-> "prod-2", price |-> 24999, quantity |-> 2,
        maxQuantity |-> 5] >>

\* the line with its totalPrice text written anew
withTotalPrice(item, quantity) ==
    Spread(item, [quantity |-> quantity, totalPrice |-> toFixed(item.price * quantity)])

processCartItems(items) ==
    [i \in DOMAIN items |-> withTotalPrice(items[i], items[i].quantity)]

\* the text saveCartData hands to localStorage.setItem
CartText(items, coupon) ==
    [present |-> TRUE, json |-> TRUE, items |-> items, appliedCoupon |-> coupon]

\* a text of another writer that is JSON but has no items
CartWithoutItems == [present |-> TRUE, json |-> TRUE]

\* loadCartData: the stored items, the demonstration cart when nothing is
\* stored, the empty cart when the text does not parse
loadCartData(entry) ==
    IF ~entry.present THEN processCartItems(mockCartItems)
    ELSE IF ~entry.json THEN <<>>
    ELSE IF "items" \in DOMAIN entry THEN processCartItems(entry.items)
    ELSE processCartItems(<<>>)

\* saveCartData: the cart and the coupon as they are now
saveCartData(cart) ==
    [cart EXCEPT !.ecommerce_cart = CartText(cart.cartItems, cart.appliedCoupon)]

\* cartItems.find(cartItem => cartItem.id === itemId)
findItem(items, itemId) ==
    LET hits == {i \in DOMAIN items : items[i].id = itemId}
    IN  IF hits = {} THEN 0 ELSE CHOOSE i \in hits : \A j \in hits : i <= j

\* setItemQuantity: every line with this id gets the quantity and a new
\* totalPrice, then the cart is saved.  The await is on a promise that is
\* already settled, so nothing runs between the save and dispatchCartUpdate,
\* whose read of get total() may throw: that is caught and shown as a toast.
setItemQuantity(cart, itemId, newQuantity) ==
    saveCartData([cart EXCEPT !.cartItems =
        [i \in DOMAIN @ |-> IF @[i].id = itemId
                            THEN withTotalPrice(@[i], newQuantity) ELSE @[i]]])

\* updateItemQuantity: one step up or down, kept within 1 .. maxQuantity
updateItemQuantity(cart, itemId, quantityChange) ==
    LET at == findItem(cart.cartItems, itemId)
        newQuantity == cart.cartItems[at].quantity + quantityChange
    IN  IF at # 0 /\ newQuantity > 0 /\ newQuantity <= cart.cartItems[at].maxQuantity
        THEN setItemQuantity(cart, itemId, newQuantity)
        ELSE cart

(***************************************************************************)
(* parseInt(text, 10) of what was typed into a quantity box: an optional   *)
(* sign, then the digits up to the first other character; NaN without a    *)
(* digit.  The typed texts are sequences of characters without leading     *)
(* whitespace.                                                             *)
(***************************************************************************)
Digits == <<"0", "1", "2", "3", "4", "5", "6", "7", "8", "9">>

IsDigit(c) == \E i \in DOMAIN Digits : Digits[i] = c

DigitValue(c) == (CHOOSE i \in DOMAIN Digits : Digits[i] = c) - 1

RECURSIVE LeadingDigits(_)
LeadingDigits(cs) ==
    IF cs # <<>> /\ IsDigit(Head(cs)) THEN <<Head(cs)>> \o LeadingDigits(Tail(cs))
    ELSE <<>>

RECURSIVE Decimal(_, _)
Decimal(ds, sofar) ==
    IF ds = <<>> THEN sofar ELSE Decimal(Tail(ds), 10 * sofar + DigitValue(Head(ds)))

parseInt(cs) ==
    LET signed == cs # <<>> /\ Head(cs) \in {"-", "+"}
        ds == LeadingDigits(IF signed THEN Tail(cs) ELSE cs)
    IN  IF ds = <<>> THEN [isNaN |-> TRUE, value |-> 0]
        ELSE [isNaN |-> FALSE,
              value |-> IF signed /\ Head(cs) = "-" THEN 0 - Decimal(ds, 0)
                        ELSE Decimal(ds, 0)]

(***************************************************************************)
(* Coupons.  A coupon code is the sequence of its characters.              *)
(***************************************************************************)
LowerCase == <<"a", "e", "f", "h", "i", "l", "m", "o", "p", "r", "s", "v", "w", "c">>

UpperCase == <<"A", "E", "F", "H", "I", "L", "M", "O", "P", "R", "S", "V", "W", "C">>

toUpperCase(cs) ==
    [i \in DOMAIN cs |->
        IF \E k \in DOMAIN LowerCase : LowerCase[k] = cs[i]
        THEN UpperCase[CHOOSE k \in DOMAIN LowerCase : LowerCase[k] = cs[i]]
        ELSE cs[i]]

SAVE10 == <<"S", "A", "V", "E", "1", "0">>

WELCOME20 == <<"W", "E", "L", "C", "O", "M", "E", "2", "0">>

FREESHIP == <<"F", "R", "E", "E", "S", "H", "I", "P">>

\* mockCoupons[code], undefined for any other code; minOrder in cents
mockCoupons(code) ==
    CASE code = SAVE10 ->
            [code |-> "SAVE10", type |-> "percentage", value |-> 10, minOrder |-> 0]
      [] code = WELCOME20 ->
            [code |-> "WELCOME20", type |-> "percentage", value |-> 20, minOrder |-> 10000]
      [] code = FREESHIP ->
            [code |-> "FREESHIP", type |-> "fixed", value |-> 999, minOrder |-> 0]
      [] OTHER -> [code |-> "undefined"]

(***************************************************************************)
(* The cart's handlers.  Toasts, messages and events are display only and  *)
(* are not kept.                                                           *)
(***************************************************************************)
cartStep(next) ==
    /\ shoppingCart' = next
    /\ UNCHANGED <<incidentRecordingForm, heroCarousel, productCarousel>>

\* connectedCallback of the cart: loadCartData (loadRecentItems only fills
\* the display)
cartConnectedCallback ==
    /\ ~shoppingCart.mounted
    /\ shoppingCart' = [shoppingCart EXCEPT
            !.mounted = TRUE,
            !.cartItems = loadCartData(shoppingCart.ecommerce_cart)]
    /\ UNCHANGED <<incidentRecordingForm, heroCarousel, productCarousel>>

increaseQuantity(itemId) ==
    /\ shoppingCart.mounted
    /\ cartStep(updateItemQuantity(shoppingCart, itemId, 1))

decreaseQuantity(itemId) ==
    /\ shoppingCart.mounted
    /\ cartStep(updateItemQuantity(shoppingCart, itemId, -1))

\* updateQuantity: the typed value goes to setItemQuantity as soon as it is
\* positive
updateQuantity(itemId, value) ==
    LET newQuantity == parseInt(value)
    IN  /\ shoppingCart.mounted
        /\ cartStep(IF ~newQuantity.isNaN /\ newQuantity.value > 0
                    THEN setItemQuantity(shoppingCart, itemId, newQuantity.value)
                    ELSE shoppingCart)

\* cartItems.filter(item => item.id !== itemId)
withoutItem(items, itemId) == SelectSeq(items, LAMBDA item : item.id # itemId)

removeItem(itemId) ==
    /\ shoppingCart.mounted
    /\ cartStep(saveCartData([shoppingCart EXCEPT
            !.cartItems = withoutItem(@, itemId)]))

\* moveToWishlist: addToWishlist writes the product to the wishlist entry of
\* the storage, which the cart never reads back, then the line leaves the
\* cart
moveToWishlist(itemId) ==
    /\ shoppingCart.mounted
    /\ cartStep(IF findItem(shoppingCart.cartItems, itemId) = 0 THEN shoppingCart
                ELSE saveCartData([shoppingCart EXCEPT
                        !.cartItems = withoutItem(@, itemId)]))

handleCouponInput(value) ==
    /\ shoppingCart.mounted
    /\ cartStep([shoppingCart EXCEPT !.couponCode = toUpperCase(value)])

\* applyCoupon up to its await: validateCoupon starts the 1000 ms timer
\* with the code as it is now
applyCoupon ==
    /\ shoppingCart.mounted
    /\ cartStep(IF TrimEnd(TrimStart(shoppingCart.couponCode)) = <<>> THEN shoppingCart
                ELSE [shoppingCart EXCEPT
                        !.validating = Append(@, shoppingCart.couponCode)])

\* the oldest validateCoupon timer fires.  Reading get subtotal() may throw
\* inside the callback: then the promise is never resolved and applyCoupon
\* never resumes.  Otherwise applyCoupon resumes before any other task.
validateCouponTimerFires ==
    /\ shoppingCart.validating # <<>>
    /\ LET coupon == mockCoupons(Head(shoppingCart.validating))
           amount == subtotal(shoppingCart.cartItems)
           waiting == [shoppingCart EXCEPT !.validating = Tail(@)]
       IN  cartStep(IF amount.type = "TypeError" THEN waiting
                    ELSE IF /\ coupon.code # "undefined"
                            /\ parseFloat(amount.text) >= coupon.minOrder
                         THEN [waiting EXCEPT !.appliedCoupon = coupon,
                                              !.couponCode = <<>>]
                         ELSE waiting)

removeCoupon ==
    /\ shoppingCart.mounted
    /\ cartStep([shoppingCart EXCEPT !.appliedCoupon = null])

\* Date.now().toString() at the clock reading t
TimestampId(t) == "176207760000" \o ToString(t)

\* addItem: a product already in the cart has its quantity raised through
\* setItemQuantity; another product gets a line of its own
addItem(product, quantity, t) ==
    LET at == CHOOSE i \in DOMAIN shoppingCart.cartItems \cup {0} :
                /\ i # 0 => shoppingCart.cartItems[i].productId = product.id
                /\ \A j \in DOMAIN shoppingCart.cartItems :
                        shoppingCart.cartItems[j].productId = product.id => i # 0 /\ i <= j
        newItem == [id |-> TimestampId(t), productId |-> product.id,
                    price |-> product.price, quantity |-> quantity,
                    maxQuantity |-> IF product.maxQuantity = 0 THEN 10
                                    ELSE product.maxQuantity]
    IN  /\ shoppingCart.mounted
        /\ t >= shoppingCart.now
        /\ cartStep(IF at # 0
                    THEN setItemQuantity(shoppingCart, shoppingCart.cartItems[at].id,
                                         shoppingCart.cartItems[at].quantity + quantity)
                    ELSE saveCartData([shoppingCart EXCEPT
                            !.cartItems = @ \o processCartItems(<<newItem>>),
                            !.now = t]))

clearCart ==
    /\ shoppingCart.mounted
    /\ cartStep(saveCartData([shoppingCart EXCEPT !.cartItems = <<>>,
                                                  !.appliedCoupon = null]))

(***************************************************************************)
(* The cart on its own page: what the shopper and the host page can do.    *)
(***************************************************************************)
MaxQuantity == 4

MaxLines == 3

MaxClock == 1

MaxChecks == 1

\* texts typed into a quantity box
TypedQuantities ==
    {<<>>, <<"0">>, <<"4">>, <<"2", ".", "5">>, <<"-", "1">>}

\* texts typed into the coupon box
TypedCoupons ==
    {<<" ", " ">>, <<"s", "a", "v", "e", "1", "0">>, WELCOME20, <<" ">> \o FREESHIP}

\* products the host page hands to addItem; maxQuantity 0 stands for a
\* product that does not carry one
Products ==
    {[id |-> "prod-2", price |-> 24999, maxQuantity |-> 0],
     [id |-> "prod-3", price |-> 4950, maxQuantity |-> 3]}

AddQuantities == {1, 4}

ItemIds == {"1", "2"} \cup {TimestampId(t) : t \in 1 .. MaxClock}

StoredCarts ==
    {NoCart, Corrupt, CartWithoutItems, CartText(<<>>, null),
     CartText(processCartItems(mockCartItems), null)}

InitCart ==
    /\ Constructed
    /\ localStorage = NoDraft
    /\ events = <<>>
    /\ editsUsed = 0
    /\ heroCarousel = HeroCarouselConstructed
    /\ productCarousel = ProductCarouselConstructed
    /\ \E entry \in StoredCarts :
        shoppingCart = [ShoppingCartConstructed EXCEPT !.ecommerce_cart = entry]

\* the quantity a product's line would have after addItem
QuantityAfterAdd(product, quantity) ==
    LET lines == {i \in DOMAIN shoppingCart.cartItems :
                      shoppingCart.cartItems[i].productId = product.id}
    IN  IF lines = {} THEN quantity
        ELSE shoppingCart.cartItems[CHOOSE i \in lines : \A j \in lines : i <= j].quantity
                + quantity

MayAdd(product, quantity) ==
    /\ QuantityAfterAdd(product, quantity) <= MaxQuantity
    /\ (\A i \in DOMAIN shoppingCart.cartItems :
            shoppingCart.cartItems[i].productId # product.id)
        => Len(shoppingCart.cartItems) < MaxLines

NextCart ==
    \/ cartConnectedCallback
    \/ \E itemId \in ItemIds : increaseQuantity(itemId)
    \/ \E itemId \in ItemIds : decreaseQuantity(itemId)
    \/ \E itemId \in ItemIds, value \in TypedQuantities : updateQuantity(itemId, value)
    \/ \E itemId \in ItemIds : removeItem(itemId)
    \/ \E itemId \in ItemIds : moveToWishlist(itemId)
    \/ \E value \in TypedCoupons : handleCouponInput(value)
    \/ Len(shoppingCart.validating) < MaxChecks /\ applyCoupon
    \/ validateCouponTimerFires
    \/ removeCoupon
    \/ \E product \in Products, quantity \in AddQuantities, t \in 1 .. MaxClock :
            MayAdd(product, quantity) /\ addItem(product, quantity, t)
    \/ clearCart

SpecCart == InitCart /\ [][NextCart]_vars

\* C27: after any sequence of increaseQuantity, decreaseQuantity,
\* updateQuantity with a typed value, addItem and removeItem, every line of
\* the cart has a quantity of at least 1 and at most its maxQuantity.
C27_QuantityWithinBounds ==
    \A i \in DOMAIN shoppingCart.cartItems :
        /\ 1 <= shoppingCart.cartItems[i].quantity
        /\ shoppingCart.cartItems[i].quantity <= shoppingCart.cartItems[i].maxQuantity

defaultSlides == 3

\* clearInterval(this.autoPlayTimer): ends the interval the handle names
clearAutoPlayTimer(h) ==
    [h EXCEPT !.autoPlayIntervals = IF h.autoPlayTimer THEN @ - 1 ELSE @,
              !.autoPlayTimer = FALSE]

\* clearInterval(this.progressTimer)
clearProgressTimer(h) ==
    [h EXCEPT !.progressIntervals = IF h.progressTimer THEN @ - 1 ELSE @,
              !.progressTimer = FALSE]

startProgressBar(h) ==
    [h EXCEPT !.progressBarWidth = 0,
              !.progressIntervals = @ + 1,
              !.progressTimer = TRUE]

resetProgressBar(h) ==
    LET cleared == clearProgressTimer([h EXCEPT !.progressBarWidth = 0])
    IN  IF cleared.isPlaying /\ cleared.showProgressBar
        THEN startProgressBar(cleared) ELSE cleared

moveToNextSlide(h) ==
    resetProgressBar([h EXCEPT !.currentSlideIndex =
        IF @ < h.carouselSlides - 1 THEN @ + 1
        ELSE IF h.loop THEN 0 ELSE @])

moveToPreviousSlide(h) ==
    resetProgressBar([h EXCEPT !.currentSlideIndex =
        IF @ > 0 THEN @ - 1
        ELSE IF h.loop THEN h.carouselSlides - 1 ELSE @])

moveToSlide(h, index) ==
    IF index >= 0 /\ index < h.carouselSlides
    THEN resetProgressBar([h EXCEPT !.currentSlideIndex = index])
    ELSE h

startAutoPlay(h) ==
    IF h.autoPlay /\ h.carouselSlides > 1 /\ ~h.isPlaying
    THEN LET playing == [h EXCEPT !.isPlaying = TRUE,
                                  !.autoPlayIntervals = @ + 1,
                                  !.autoPlayTimer = TRUE]
         IN  IF playing.showProgressBar THEN startProgressBar(playing) ELSE playing
    ELSE h

pauseAutoPlay(h) ==
    clearProgressTimer(clearAutoPlayTimer(
        [h EXCEPT !.isUserInteracting = TRUE, !.isPlaying = FALSE]))

\* setTimeout(..., 3000); the handle is not kept
resumeAutoPlayAfterDelay(h) == [h EXCEPT !.timeouts = @ + 1]

clearTimers(h) ==
    [clearProgressTimer(clearAutoPlayTimer(h)) EXCEPT !.isPlaying = FALSE]

nextSlide(h) == resumeAutoPlayAfterDelay(moveToNextSlide(pauseAutoPlay(h)))

previousSlide(h) == resumeAutoPlayAfterDelay(moveToPreviousSlide(pauseAutoPlay(h)))

\* loadSlides: the slides given, the three default slides when none are
loadSlides(h) ==
    [h EXCEPT !.carouselSlides = IF h.slidesData > 0 THEN h.slidesData
                                 ELSE defaultSlides]

\* initializeCarousel up to its await: loadSlides has run
initializeCarousel(h) == [loadSlides(h) EXCEPT !.initializing = @ + 1]

heroStep(after) ==
    /\ heroCarousel' = after
    /\ UNCHANGED <<incidentRecordingForm, shoppingCart, productCarousel>>

\* the carousel is in the page and no continuation waits to run
Idle == heroCarousel.phase = "connected" /\ heroCarousel.initializing = 0

heroConnectedCallback ==
    /\ heroCarousel.phase = "constructed"
    /\ heroStep(initializeCarousel([heroCarousel EXCEPT !.phase = "connected"]))

\* initializeCarousel after its await: setupCarousel, then auto-play.  The
\* continuation is a microtask: it runs when the call that started it has
\* returned to the host, which may have removed the element by then.
initializeCarouselResumes ==
    /\ heroCarousel.initializing > 0
    /\ LET ready == [heroCarousel EXCEPT !.initializing = @ - 1,
                                         !.currentSlideIndex = 0,
                                         !.isLoading = FALSE]
       IN  heroStep(IF ready.autoPlay /\ ready.carouselSlides > 1
                    THEN startAutoPlay(ready) ELSE ready)

heroDisconnectedCallback ==
    /\ heroCarousel.phase = "connected"
    /\ heroStep(clearTimers([heroCarousel EXCEPT !.phase = "disconnected"]))

\* the 3 s timer of resumeAutoPlayAfterDelay fires
resumeTimerFires ==
    /\ heroCarousel.initializing = 0
    /\ heroCarousel.timeouts > 0
    /\ LET resumed == [heroCarousel EXCEPT !.timeouts = @ - 1,
                                           !.isUserInteracting = FALSE]
       IN  heroStep(IF resumed.autoPlay THEN startAutoPlay(resumed) ELSE resumed)

\* a live auto-play interval ticks
autoPlayTimerFires ==
    /\ heroCarousel.initializing = 0
    /\ heroCarousel.autoPlayIntervals > 0
    /\ heroStep(IF ~heroCarousel.isUserInteracting
                THEN moveToNextSlide(heroCarousel) ELSE heroCarousel)

\* a live progress interval ticks: 50 ms of the 5000 ms are one percent
progressTimerFires ==
    /\ heroCarousel.initializing = 0
    /\ heroCarousel.progressIntervals > 0
    /\ LET grown == [heroCarousel EXCEPT !.progressBarWidth = @ + 1]
       IN  heroStep(IF grown.progressBarWidth >= 100
                    THEN resetProgressBar(grown) ELSE grown)

\* an indicator dot is clicked
goToSlide(targetIndex) ==
    /\ Idle
    /\ heroStep(resumeAutoPlayAfterDelay(
            moveToSlide(pauseAutoPlay(heroCarousel), targetIndex)))

handleTouchStart(clientX) ==
    /\ heroCarousel.phase = "connected"
    /\ heroStep(pauseAutoPlay([heroCarousel EXCEPT !.touchStartX = clientX]))

\* a touchStartX of 0 (or none) is falsy: nothing happens, not even the resume
handleTouchEnd(clientX) ==
    /\ heroCarousel.phase = "connected"
    /\ LET touchDiff == heroCarousel.touchStartX - clientX
           swiped == IF touchDiff > 50 THEN moveToNextSlide(heroCarousel)
                     ELSE IF touchDiff < -50 THEN moveToPreviousSlide(heroCarousel)
                     ELSE heroCarousel
       IN  heroStep(IF heroCarousel.touchStartX = 0 THEN heroCarousel
                    ELSE resumeAutoPlayAfterDelay([swiped EXCEPT !.touchStartX = 0]))

handleKeyDown(key) ==
    /\ heroCarousel.phase = "connected"
    /\ heroStep(CASE key = "ArrowLeft" -> previousSlide(heroCarousel)
                  [] key = "ArrowRight" -> nextSlide(heroCarousel)
                  [] key \in {" ", "Enter"} ->
                        IF heroCarousel.isPlaying THEN pauseAutoPlay(heroCarousel)
                        ELSE startAutoPlay(heroCarousel)
                  [] OTHER -> heroCarousel)

play ==
    /\ heroCarousel.phase = "connected"
    /\ heroStep(startAutoPlay(heroCarousel))

pause ==
    /\ heroCarousel.phase = "connected"
    /\ heroStep(pauseAutoPlay(heroCarousel))

goTo(index) ==
    /\ heroCarousel.phase = "connected"
    /\ heroStep(moveToSlide(heroCarousel, index))

\* next(), and the arrow button, which calls nextSlide too
next ==
    /\ heroCarousel.phase = "connected"
    /\ heroStep(nextSlide(heroCarousel))

previous ==
    /\ heroCarousel.phase = "connected"
    /\ heroStep(previousSlide(heroCarousel))

updateSlides(newSlidesData) ==
    /\ heroCarousel.phase = "connected"
    /\ heroStep(initializeCarousel([heroCarousel EXCEPT !.slidesData = newSlidesData]))

(***************************************************************************)
(* The carousel in a page: the host sets the public properties before it   *)
(* inserts the element.                                                    *)
(***************************************************************************)
MaxResumes == 2

MaxInits == 1

SlidesGiven == {0, 1, 2}

Keys == {"ArrowLeft", "ArrowRight", " ", "Tab"}

InitHero ==
    /\ Constructed
    /\ localStorage = NoDraft
    /\ events = <<>>
    /\ editsUsed = 0
    /\ shoppingCart = ShoppingCartConstructed
    /\ productCarousel = ProductCarouselConstructed
    /\ \E autoPlay \in BOOLEAN, loop \in BOOLEAN, showProgressBar \in BOOLEAN,
          n \in SlidesGiven :
        heroCarousel = [HeroCarouselConstructed EXCEPT
                            !.autoPlay = autoPlay,
                            !.loop = loop,
                            !.showProgressBar = showProgressBar,
                            !.slidesData = n]

MayResume == heroCarousel.timeouts < MaxResumes

NextHero ==
    \/ heroConnectedCallback
    \/ initializeCarouselResumes
    \/ heroDisconnectedCallback
    \/ resumeTimerFires
    \/ autoPlayTimerFires
    \/ progressTimerFires
    \/ MayResume /\ \E targetIndex \in 0 .. 2 : goToSlide(targetIndex)
    \/ \E clientX \in {0, 100} : handleTouchStart(clientX)
    \/ MayResume /\ \E clientX \in {0, 100, 200} : handleTouchEnd(clientX)
    \/ MayResume /\ \E key \in Keys : handleKeyDown(key)
    \/ play
    \/ pause
    \/ \E index \in {-1, 0, 1} : goTo(index)
    \/ MayResume /\ next
    \/ MayResume /\ previous
    \/ heroCarousel.initializing < MaxInits /\ \E n \in SlidesGiven : updateSlides(n)

SpecHero == InitHero /\ [][NextHero]_vars

\* C29: after disconnectedCallback no auto-play interval and no progress
\* interval is live and none is started later, so the slide index never
\* changes once the carousel is disposed, also when a manual navigation had
\* scheduled its 3 s resume shortly before the teardown.
C29_NoTimerAfterTeardown ==
    /\ [](heroCarousel.phase = "disconnected" =>
            /\ heroCarousel.autoPlayIntervals = 0
            /\ heroCarousel.progressIntervals = 0)
    /\ [][heroCarousel.phase = "disconnected" =>
            heroCarousel'.currentSlideIndex = heroCarousel.currentSlideIndex]_vars

(***************************************************************************)
(* ProductCarousel (the first class of productCarousel.js).  A product is  *)
(* kept by its id.                                                         *)
(***************************************************************************)
getMockProducts == <<"prod-1", "prod-2", "prod-3", "prod-4", "prod-5", "prod-6">>

Min(a, b) == IF a <= b THEN a ELSE b

Max(a, b) == IF a >= b THEN a ELSE b

\* Array.prototype.slice(start, end): a negative bound counts from the end
slice(array, start, end) ==
    LET from == IF start < 0 THEN Max(Len(array) + start, 0) ELSE Min(start, Len(array))
        to == IF end < 0 THEN Max(Len(array) + end, 0) ELSE Min(end, Len(array))
    IN  IF from < to THEN SubSeq(array, from + 1, to) ELSE <<>>

itemsPerPage == 4

visibleProducts(carousel) ==
    slice(carousel.products, carousel.currentStartIndex,
          carousel.currentStartIndex + itemsPerPage)

isPreviousDisabled(carousel) == carousel.currentStartIndex = 0

isNextDisabled(carousel) ==
    carousel.currentStartIndex + itemsPerPage >= Len(carousel.products)

carouselStep(after) ==
    /\ productCarousel' = after
    /\ UNCHANGED <<incidentRecordingForm, shoppingCart, heroCarousel>>

\* connectedCallback of the carousel: loadProducts up to its await
carouselConnectedCallback ==
    /\ productCarousel.phase = "constructed"
    /\ carouselStep([productCarousel EXCEPT !.phase = "connected",
                                            !.loading = @ + 1])

\* the 800 ms timer fires and loadProducts resumes
loadProductsResumes ==
    /\ productCarousel.loading > 0
    /\ carouselStep([productCarousel EXCEPT !.loading = @ - 1,
                                            !.products = getMockProducts,
                                            !.isLoading = FALSE])

\* handlePrevious of the carousel
carouselHandlePrevious ==
    /\ productCarousel.phase = "connected"
    /\ carouselStep([productCarousel EXCEPT
            !.currentStartIndex = Max(0, @ - 4)])

\* handleNext of the carousel
carouselHandleNext ==
    /\ productCarousel.phase = "connected"
    /\ carouselStep([productCarousel EXCEPT
            !.currentStartIndex = Min(Len(productCarousel.products) - 4, @ + 4)])

\* this.dispatchEvent(new CustomEvent(type, {detail}))
dispatchEvent(carousel, type, detail) ==
    [carousel EXCEPT !.dispatched = Append(@, [type |-> type, detail |-> detail])]

\* the product cards on screen are those of visibleProducts
OnScreen(productId) ==
    /\ productCarousel.phase = "connected"
    /\ ~productCarousel.isLoading
    /\ \E i \in DOMAIN visibleProducts(productCarousel) :
            visibleProducts(productCarousel)[i] = productId

handleProductClick(productId) ==
    /\ OnScreen(productId)
    /\ carouselStep(dispatchEvent(productCarousel, "productclick", productId))

handleAddToCart(productId) ==
    /\ OnScreen(productId)
    /\ carouselStep(dispatchEvent(productCarousel, "addtocart", productId))

handleAddToWishlist(productId) ==
    /\ OnScreen(productId)
    /\ carouselStep(dispatchEvent(productCarousel, "addtowishlist", productId))

\* carouselType keeps its default
handleViewAll ==
    /\ productCarousel.phase = "connected"
    /\ carouselStep(dispatchEvent(productCarousel, "viewall", "featured"))

MaxDispatched == 2

MayDispatchMore == Len(productCarousel.dispatched) < MaxDispatched

ProductIds == {getMockProducts[i] : i \in DOMAIN getMockProducts}

InitCarousel ==
    /\ Constructed
    /\ localStorage = NoDraft
    /\ events = <<>>
    /\ editsUsed = 0
    /\ OtherComponentsConstructed

NextCarousel ==
    \/ carouselConnectedCallback
    \/ loadProductsResumes
    \/ carouselHandlePrevious
    \/ carouselHandleNext
    \/ MayDispatchMore /\ \E productId \in ProductIds : handleProductClick(productId)
    \/ MayDispatchMore /\ \E productId \in ProductIds : handleAddToCart(productId)
    \/ MayDispatchMore /\ \E productId \in ProductIds : handleAddToWishlist(productId)
    \/ MayDispatchMore /\ handleViewAll

SpecCarousel == InitCarousel /\ [][NextCarousel]_vars

\* C30: after any sequence of handleNext and handlePrevious, including calls
\* made before the products finished loading, currentStartIndex is at least 0
\* and at most max(0, number of products - 4).
C30_WindowWithinBounds ==
    /\ 0 <= productCarousel.currentStartIndex
    /\ productCarousel.currentStartIndex
            <= Max(0, Len(productCarousel.products) - 4)

====
